---- MODULE Spec2Model ----
(***************************************************************************)
(* Comment Toolkit: the comment-pattern generation engine of               *)
(* src/src/extension.ts (interpretSpaces, calculateContentLength,          *)
(* adjustLineLength, generateCommentPattern, replacePlaceholders) and the  *)
(* pattern cache around it.                                                *)
(*                                                                         *)
(* Text is modelled by TLA+ strings; a character is a string of length 1.  *)
(* Positions are 1-based; 0 stands for JavaScript's "not found".           *)
(***************************************************************************)
EXTENDS Integers, Sequences, FiniteSets, TLC

(***************************************************************************)
(* JavaScript string primitives used by the engine.                        *)
(***************************************************************************)

\* s.charAt(i - 1)
Ch(s, i) == SubSeq(s, i, i)

RECURSIVE IndexFrom(_, _, _)
\* s.indexOf(p, i - 1) + 1
IndexFrom(s, p, i) ==
    IF i + Len(p) - 1 > Len(s) THEN 0
    ELSE IF SubSeq(s, i, i + Len(p) - 1) = p THEN i
    ELSE IndexFrom(s, p, i + 1)

\* s.includes(p); the empty string is included in every string
includes(s, p) == IndexFrom(s, p, 1) > 0

\* s.replace(p, r) with a string pattern: the first occurrence only
replace(s, p, r) ==
    LET i == IndexFrom(s, p, 1)
    IN  IF i = 0 THEN s
        ELSE SubSeq(s, 1, i - 1) \o r \o SubSeq(s, i + Len(p), Len(s))

RECURSIVE replaceAll(_, _, _)
\* s.replace(/p/g, r) for a literal, non-empty p
replaceAll(s, p, r) ==
    LET i == IndexFrom(s, p, 1)
    IN  IF i = 0 THEN s
        ELSE SubSeq(s, 1, i - 1) \o r
             \o replaceAll(SubSeq(s, i + Len(p), Len(s)), p, r)

IsSpace(c) == c \in {" ", "\t", "\n", "\r"}

RECURSIVE trimStart(_)
trimStart(s) ==
    IF Len(s) > 0 /\ IsSpace(Ch(s, 1)) THEN trimStart(SubSeq(s, 2, Len(s)))
    ELSE s

RECURSIVE trimEnd(_)
trimEnd(s) ==
    IF Len(s) > 0 /\ IsSpace(Ch(s, Len(s))) THEN trimEnd(SubSeq(s, 1, Len(s) - 1))
    ELSE s

\* s.trim()
trim(s) == trimEnd(trimStart(s))

RECURSIVE repeat(_, _)
\* c.repeat(n) for n >= 0 (a negative n raises RangeError, see adjustLineLength)
repeat(c, n) == IF n <= 0 THEN "" ELSE c \o repeat(c, n - 1)

RECURSIVE split(_)
\* s.split('\n')
split(s) ==
    LET i == IndexFrom(s, "\n", 1)
    IN  IF i = 0 THEN <<s>>
        ELSE <<SubSeq(s, 1, i - 1)>> \o split(SubSeq(s, i + 1, Len(s)))

RECURSIVE join(_)
\* lines.join('\n')
join(lines) ==
    IF Len(lines) = 0 THEN ""
    ELSE IF Len(lines) = 1 THEN lines[1]
    ELSE lines[1] \o "\n" \o join(Tail(lines))

\* a % b of JavaScript: the sign follows the dividend
JsRem(a, b) == IF a >= 0 THEN a % b ELSE 0 - ((0 - a) % b)

IsDigit(c) == c \in {"0", "1", "2", "3", "4", "5", "6", "7", "8", "9"}

DigitValue(c) ==
    CASE c = "0" -> 0 [] c = "1" -> 1 [] c = "2" -> 2 [] c = "3" -> 3
      [] c = "4" -> 4 [] c = "5" -> 5 [] c = "6" -> 6 [] c = "7" -> 7
      [] c = "8" -> 8 [] c = "9" -> 9

RECURSIVE DigitsEnd(_, _)
\* the position after the longest run of digits starting at i (\d+, greedy)
DigitsEnd(s, i) ==
    IF i <= Len(s) /\ IsDigit(Ch(s, i)) THEN DigitsEnd(s, i + 1) ELSE i

RECURSIVE parseInt(_)
\* parseInt(d, 10) for a string of digits
parseInt(d) ==
    IF Len(d) = 0 THEN 0
    ELSE 10 * parseInt(SubSeq(d, 1, Len(d) - 1)) + DigitValue(Ch(d, Len(d)))

(***************************************************************************)
(* interpretSpaces                                                         *)
(***************************************************************************)

RECURSIVE ReplaceCountMarkers(_)
\* content.replace(/\[s:(\d+)\]/g, (match, p1) => ' '.repeat(parseInt(p1, 10)))
ReplaceCountMarkers(s) ==
    LET i == IndexFrom(s, "[s:", 1)
    IN  IF i = 0 THEN s
        ELSE LET j == DigitsEnd(s, i + 3)
             IN  IF j > i + 3 /\ Ch(s, j) = "]"
                 THEN SubSeq(s, 1, i - 1)
                      \o repeat(" ", parseInt(SubSeq(s, i + 3, j - 1)))
                      \o ReplaceCountMarkers(SubSeq(s, j + 1, Len(s)))
                 ELSE SubSeq(s, 1, i)
                      \o ReplaceCountMarkers(SubSeq(s, i + 1, Len(s)))

\* interpretSpaces whose second replacement also matches a literal space and
\* writes two
interpretSpaces_WidensSpaces(content) ==
    replaceAll(replaceAll(ReplaceCountMarkers(content), "[s]", " "), " ", "  ")

interpretSpaces(content) == replaceAll(ReplaceCountMarkers(content), "[s]", " ")

(***************************************************************************)
(* Numbered placeholders: /\$\{(\d+)(?::(.*?))?\}/g                         *)
(***************************************************************************)

RECURSIVE BraceFrom(_, _)
\* the position of the first "}" at or after i on the same line, else 0
\* (the dot of .*? does not match a line terminator)
BraceFrom(s, i) ==
    IF i > Len(s) \/ Ch(s, i) = "\n" THEN 0
    ELSE IF Ch(s, i) = "}" THEN i
    ELSE BraceFrom(s, i + 1)

\* the match of the placeholder expression anchored at position i:
\* p1 the index, p2 the default ("" when the group is absent or empty),
\* last the position of the closing brace
MatchPlaceholder(s, i) ==
    IF SubSeq(s, i, i + 1) # "${" THEN [ok |-> FALSE]
    ELSE LET j == DigitsEnd(s, i + 2)
         IN  IF j = i + 2 THEN [ok |-> FALSE]
             ELSE IF Ch(s, j) = "}"
                  THEN [ok |-> TRUE, p1 |-> SubSeq(s, i + 2, j - 1),
                        p2 |-> "", last |-> j]
             ELSE IF Ch(s, j) = ":" /\ BraceFrom(s, j + 1) > 0
                  THEN [ok |-> TRUE, p1 |-> SubSeq(s, i + 2, j - 1),
                        p2 |-> SubSeq(s, j + 1, BraceFrom(s, j + 1) - 1),
                        last |-> BraceFrom(s, j + 1)]
             ELSE [ok |-> FALSE]

\* placeholderMap.get(k) || ''
MapGet(m, k) == IF k \in DOMAIN m THEN m[k] ELSE ""

\* placeholderMap.set(k, v)
MapSet(m, k, v) == [x \in DOMAIN m \cup {k} |-> IF x = k THEN v ELSE m[x]]

EmptyMap == [x \in {} |-> ""]

(***************************************************************************)
(* calculateContentLength                                                  *)
(***************************************************************************)

RECURSIVE MeasureFrom(_, _, _, _)
\* MeasureFrom keeping the first default stored for an index: a later
\* default for that index is neither stored nor measured
MeasureFrom_FirstDefaultKept(s, i, m, out) ==
    LET k == IndexFrom(s, "$", i)
    IN  IF k = 0 THEN [text |-> out \o SubSeq(s, i, Len(s)), map |-> m]
        ELSE LET mt == MatchPlaceholder(s, k)
                 pre == out \o SubSeq(s, i, k - 1)
             IN  IF ~mt.ok THEN MeasureFrom(s, k + 1, m, pre \o "$")
                 ELSE IF mt.p2 # "" /\ MapGet(m, mt.p1) = ""
                      THEN MeasureFrom(s, mt.last + 1,
                                       MapSet(m, mt.p1, mt.p2), pre \o mt.p2)
                 ELSE MeasureFrom(s, mt.last + 1, m, pre \o MapGet(m, mt.p1))

\* MeasureFrom with a bare reference replaced by the empty string whatever
\* the map holds
MeasureFrom_BareEmpty(s, i, m, out) ==
    LET k == IndexFrom(s, "$", i)
    IN  IF k = 0 THEN [text |-> out \o SubSeq(s, i, Len(s)), map |-> m]
        ELSE LET mt == MatchPlaceholder(s, k)
                 pre == out \o SubSeq(s, i, k - 1)
             IN  IF ~mt.ok THEN MeasureFrom(s, k + 1, m, pre \o "$")
                 ELSE IF mt.p2 # ""
                      THEN MeasureFrom(s, mt.last + 1,
                                       MapSet(m, mt.p1, mt.p2), pre \o mt.p2)
                 ELSE MeasureFrom(s, mt.last + 1, m, pre)

\* the replace callback of calculateContentLength applied from position i;
\* out is the text produced so far, m the placeholder map so far
MeasureFrom(s, i, m, out) ==
    LET k == IndexFrom(s, "$", i)
    IN  IF k = 0 THEN [text |-> out \o SubSeq(s, i, Len(s)), map |-> m]
        ELSE LET mt == MatchPlaceholder(s, k)
                 pre == out \o SubSeq(s, i, k - 1)
             IN  IF ~mt.ok THEN MeasureFrom(s, k + 1, m, pre \o "$")
                 ELSE IF mt.p2 # ""
                      THEN MeasureFrom(s, mt.last + 1,
                                       MapSet(m, mt.p1, mt.p2), pre \o mt.p2)
                 ELSE MeasureFrom(s, mt.last + 1, m, pre \o MapGet(m, mt.p1))

\* calculateContentLength measuring the template text: the placeholders are
\* neither replaced nor recorded
calculateContentLength_TemplateLength(content, placeholderMap) ==
    [length |-> Len(interpretSpaces(content)), map |-> placeholderMap]

\* returns the length and the placeholder map as the call leaves it
calculateContentLength(content, placeholderMap) ==
    LET interpretedContent == interpretSpaces(content)
        r == MeasureFrom(interpretedContent, 1, placeholderMap, "")
    IN  [length |-> Len(r.text), map |-> r.map]

(***************************************************************************)
(* adjustLineLength                                                        *)
(***************************************************************************)

\* BareContent without the trim of line 342
BareContent_Untrimmed(line, multiLineStart, multiLineEnd, singleLineStart, singleLineEnd) ==
    replace(replace(replace(replace(replace(replace(line,
        "[fill]", ""), "[spaceFill]", ""), multiLineStart, ""),
        multiLineEnd, ""), singleLineStart, ""), singleLineEnd, "")

\* the bare content of a line: directives and the first occurrence of each
\* delimiter removed, then trimmed
BareContent(line, multiLineStart, multiLineEnd, singleLineStart, singleLineEnd) ==
    trim(replace(replace(replace(replace(replace(replace(line,
        "[fill]", ""), "[spaceFill]", ""), multiLineStart, ""),
        multiLineEnd, ""), singleLineStart, ""), singleLineEnd, ""))

\* (hasMultiLine ? multiLine.length : 0)
\*   + (hasSingleLine && singleLine !== multiLine ? singleLine.length : 0)
DelimiterLength(line, multiLine, singleLine) ==
    (IF includes(line, multiLine) THEN Len(multiLine) ELSE 0)
    + (IF includes(line, singleLine) /\ singleLine # multiLine
       THEN Len(singleLine) ELSE 0)

\* `${hasMultiLine ? multiLine : ''}${hasSingleLine && singleLine !== multiLine ? singleLine : ''}`
DelimiterText(line, multiLine, singleLine) ==
    (IF includes(line, multiLine) THEN multiLine ELSE "")
    \o (IF includes(line, singleLine) /\ singleLine # multiLine
        THEN singleLine ELSE "")

\* (startLength > 0 ? 1 : 0) + (endLength > 0 ? 1 : 0) + (contentLength > 0 ? 2 : 0)
SpacesBetweenParts(contentLength, startLength, endLength) ==
    (IF startLength > 0 THEN 1 ELSE 0) + (IF endLength > 0 THEN 1 ELSE 0)
    + (IF contentLength > 0 THEN 2 ELSE 0)

\* the quantities adjustLineLength has computed when it chooses the directive;
\* measured is what calculateContentLength returned for interpretedContent
PartsRecord(baseLength, interpretedContent, measured, startLength, endLength, start, end) ==
    [interpretedContent |-> interpretedContent,
     contentLength |-> measured.length,
     startLength |-> startLength,
     endLength |-> endLength,
     spacesBetweenParts |->
         SpacesBetweenParts(measured.length, startLength, endLength),
     fillLength |-> baseLength - measured.length - startLength - endLength
                    - SpacesBetweenParts(measured.length, startLength, endLength),
     start |-> start,
     end |-> end,
     map |-> measured.map]

\* calculateContentLength(interpretedContent, placeholderMap) and the rest
MeasuredParts(baseLength, interpretedContent, startLength, endLength, start, end, placeholderMap) ==
    PartsRecord(baseLength, interpretedContent,
                calculateContentLength(interpretedContent, placeholderMap),
                startLength, endLength, start, end)

\* the body of the try block of adjustLineLength up to the choice of the
\* directive; map is the placeholder map as calculateContentLength leaves it
LineParts(line, baseLength, multiLineStart, multiLineEnd, singleLineStart, singleLineEnd, placeholderMap) ==
    MeasuredParts(baseLength,
        interpretSpaces(BareContent(line, multiLineStart, multiLineEnd,
                                    singleLineStart, singleLineEnd)),
        DelimiterLength(line, multiLineStart, singleLineStart),
        DelimiterLength(line, multiLineEnd, singleLineEnd),
        DelimiterText(line, multiLineStart, singleLineStart),
        DelimiterText(line, multiLineEnd, singleLineEnd),
        placeholderMap)

\* what a call of adjustLineLength yields: the string returned, the
\* placeholder map as the call leaves it, the error messages logged
Adjusted(result, map, errors) == [result |-> result, map |-> map, errors |-> errors]

\* the [fill] branch; fill and extraSeparator as computed at lines 358-359
FillLine(p, fill, extraSeparator) ==
    p.start \o (IF p.start # "" THEN " " ELSE "") \o fill
    \o (IF p.interpretedContent # ""
        THEN " " \o p.interpretedContent \o " " ELSE "")
    \o extraSeparator \o fill
    \o (IF p.end # "" THEN " " ELSE "") \o p.end

\* the [spaceFill] branch; fill and extraSpace as computed at lines 362-363
SpaceFillLine(p, separator, fill, extraSpace) ==
    p.start \o (IF p.start # "" THEN " " ELSE "")
    \o separator \o fill \o p.interpretedContent \o extraSpace \o fill
    \o separator \o (IF p.end # "" THEN " " ELSE "") \o p.end

\* RenderLine whose catch block returns the empty string
RenderLine_FailureReturnsEmpty(line, separator, p) ==
    IF includes(line, "[fill]")
    THEN IF p.fillLength \div 2 < 0 THEN Adjusted("", p.map, 1)
         ELSE Adjusted(FillLine(p, repeat(separator, p.fillLength \div 2),
                                IF JsRem(p.fillLength, 2) = 1 THEN separator ELSE ""),
                       p.map, 0)
    ELSE IF includes(line, "[spaceFill]")
    THEN IF p.fillLength \div 2 < 0 THEN Adjusted("", p.map, 1)
         ELSE Adjusted(SpaceFillLine(p, separator, repeat(" ", p.fillLength \div 2),
                                     IF JsRem(p.fillLength, 2) = 1 THEN " " ELSE ""),
                       p.map, 0)
    ELSE Adjusted(p.start \o p.interpretedContent \o p.end, p.map, 0)

\* RenderLine with the odd remainder character put in the left run
RenderLine_RemainderLeft(line, separator, p) ==
    IF includes(line, "[fill]")
    THEN IF p.fillLength \div 2 < 0 THEN Adjusted(line, p.map, 1)
         ELSE Adjusted(FillLine(p, repeat(separator, (p.fillLength + 1) \div 2), "")
                       , p.map, 0)
    ELSE IF includes(line, "[spaceFill]")
    THEN IF p.fillLength \div 2 < 0 THEN Adjusted(line, p.map, 1)
         ELSE Adjusted(p.start \o (IF p.start # "" THEN " " ELSE "") \o separator
                       \o repeat(" ", p.fillLength - p.fillLength \div 2)
                       \o p.interpretedContent
                       \o repeat(" ", p.fillLength \div 2) \o separator
                       \o (IF p.end # "" THEN " " ELSE "") \o p.end,
                       p.map, 0)
    ELSE Adjusted(p.start \o p.interpretedContent \o p.end, p.map, 0)

\* RenderLine whose failure leaves the placeholder map empty
RenderLine_FailureForgetsMap(line, separator, p) ==
    IF includes(line, "[fill]")
    THEN IF p.fillLength \div 2 < 0 THEN Adjusted(line, EmptyMap, 1)
         ELSE Adjusted(FillLine(p, repeat(separator, p.fillLength \div 2),
                                IF JsRem(p.fillLength, 2) = 1 THEN separator ELSE ""),
                       p.map, 0)
    ELSE IF includes(line, "[spaceFill]")
    THEN IF p.fillLength \div 2 < 0 THEN Adjusted(line, EmptyMap, 1)
         ELSE Adjusted(SpaceFillLine(p, separator, repeat(" ", p.fillLength \div 2),
                                     IF JsRem(p.fillLength, 2) = 1 THEN " " ELSE ""),
                       p.map, 0)
    ELSE Adjusted(p.start \o p.interpretedContent \o p.end, p.map, 0)

\* the choice of the directive and the rendering, given the parts p.
\* String.repeat raises RangeError on a negative count; the catch block then
\* logs one error and returns the line as received
RenderLine(line, separator, p) ==
    IF includes(line, "[fill]")
    THEN IF p.fillLength \div 2 < 0 THEN Adjusted(line, p.map, 1)
         ELSE Adjusted(FillLine(p, repeat(separator, p.fillLength \div 2),
                                IF JsRem(p.fillLength, 2) = 1 THEN separator ELSE ""),
                       p.map, 0)
    ELSE IF includes(line, "[spaceFill]")
    THEN IF p.fillLength \div 2 < 0 THEN Adjusted(line, p.map, 1)
         ELSE Adjusted(SpaceFillLine(p, separator, repeat(" ", p.fillLength \div 2),
                                     IF JsRem(p.fillLength, 2) = 1 THEN " " ELSE ""),
                       p.map, 0)
    ELSE Adjusted(p.start \o p.interpretedContent \o p.end, p.map, 0)

adjustLineLength(line, baseLength, separator, multiLineStart, multiLineEnd, singleLineStart, singleLineEnd, placeholderMap) ==
    RenderLine(line, separator,
               LineParts(line, baseLength, multiLineStart, multiLineEnd,
                         singleLineStart, singleLineEnd, placeholderMap))

(***************************************************************************)
(* The delimiter registry and the fixed templates                          *)
(***************************************************************************)

MultiLine(s, e) == [present |-> TRUE, start |-> s, end |-> e]

\* multiLine: false
NoMultiLine == [present |-> FALSE, start |-> "", end |-> ""]

Style(s, e, ml) == [singleLine |-> [start |-> s, end |-> e], multiLine |-> ml]

commentStyles ==
    ("abap" :> Style("*", "", MultiLine("/*", "*/")))
    @@ ("bat" :> Style("REM", "", NoMultiLine))
    @@ ("bibtex" :> Style("%", "", NoMultiLine))
    @@ ("clojure" :> Style(";;", "", NoMultiLine))
    @@ ("coffeescript" :> Style("#", "", MultiLine("###", "###")))
    @@ ("c" :> Style("//", "", MultiLine("/*", "*/")))
    @@ ("cpp" :> Style("//", "", MultiLine("/*", "*/")))
    @@ ("csharp" :> Style("//", "", MultiLine("/*", "*/")))
    @@ ("cuda-cpp" :> Style("//", "", MultiLine("/*", "*/")))
    @@ ("css" :> Style("/*", "*/", MultiLine("/*", "*/")))
    @@ ("diff" :> Style("#", "", NoMultiLine))
    @@ ("dockerfile" :> Style("#", "", NoMultiLine))
    @@ ("fsharp" :> Style("//", "", MultiLine("(*", "*)")))
    @@ ("git-commit" :> Style("#", "", NoMultiLine))
    @@ ("git-rebase" :> Style("#", "", NoMultiLine))
    @@ ("go" :> Style("//", "", MultiLine("/*", "*/")))
    @@ ("groovy" :> Style("//", "", MultiLine("/*", "*/")))
    @@ ("handlebars" :> Style("{{!--", "--}}", MultiLine("{{!--", "--}}")))
    @@ ("html" :> Style("<!--", "-->", MultiLine("<!--", "-->")))
    @@ ("ini" :> Style(";", "", NoMultiLine))
    @@ ("java" :> Style("//", "", MultiLine("/*", "*/")))
    @@ ("javascript" :> Style("//", "", MultiLine("/*", "*/")))
    @@ ("javascriptreact" :> Style("{/*", "*/}", MultiLine("{/*", "*/}")))
    @@ ("json" :> Style("//", "", MultiLine("/*", "*/")))
    @@ ("jsonc" :> Style("//", "", MultiLine("/*", "*/")))
    @@ ("latex" :> Style("%", "", NoMultiLine))
    @@ ("less" :> Style("//", "", MultiLine("/*", "*/")))
    @@ ("lua" :> Style("--", "", MultiLine("--[[", "]]")))
    @@ ("makefile" :> Style("#", "", NoMultiLine))
    @@ ("markdown" :> Style("<!--", "-->", MultiLine("<!--", "-->")))
    @@ ("objective-c" :> Style("//", "", MultiLine("/*", "*/")))
    @@ ("objective-cpp" :> Style("//", "", MultiLine("/*", "*/")))
    @@ ("perl" :> Style("#", "", NoMultiLine))
    @@ ("perl6" :> Style("#", "", NoMultiLine))
    @@ ("php" :> Style("//", "", MultiLine("/*", "*/")))
    @@ ("plaintext" :> Style("", "", NoMultiLine))
    @@ ("powershell" :> Style("#", "", MultiLine("<#", "#>")))
    @@ ("jade" :> Style("//-", "", MultiLine("/*", "*/")))
    @@ ("python" :> Style("#", "", MultiLine("\"\"\"", "\"\"\"")))
    @@ ("r" :> Style("#", "", MultiLine("/*", "*/")))
    @@ ("razor" :> Style("@*", "*@", MultiLine("@*", "*@")))
    @@ ("ruby" :> Style("#", "", MultiLine("=begin", "=end")))
    @@ ("rust" :> Style("//", "", MultiLine("/*", "*/")))
    @@ ("scss" :> Style("//", "", MultiLine("/*", "*/")))
    @@ ("sass" :> Style("//", "", MultiLine("/*", "*/")))
    @@ ("shaderlab" :> Style("//", "", MultiLine("/*", "*/")))
    @@ ("shellscript" :> Style("#", "", NoMultiLine))
    @@ ("sql" :> Style("--", "", MultiLine("/*", "*/")))
    @@ ("swift" :> Style("//", "", MultiLine("/*", "*/")))
    @@ ("typescript" :> Style("//", "", MultiLine("/*", "*/")))
    @@ ("typescriptreact" :> Style("{/*", "*/}", MultiLine("{/*", "*/}")))
    @@ ("tex" :> Style("%", "", NoMultiLine))
    @@ ("vb" :> Style("'", "", NoMultiLine))
    @@ ("xml" :> Style("<!--", "-->", MultiLine("<!--", "-->")))
    @@ ("xsl" :> Style("<!--", "-->", MultiLine("<!--", "-->")))
    @@ ("yaml" :> Style("#", "", NoMultiLine))

globalPatterns ==
    ("section" :>
        "[fill]multiLineStart\n[spaceFill]${1:Section}\n[fill] multiLineEnd\n\n[s]${2:}\n\nmultiLineStart[fill] End of ${1} multiLineEnd")
    @@ ("section-header" :>
        "[fill]multiLineStart\n[spaceFill]${1:Section}\n[fill] multiLineEnd\n")
    @@ ("section-footer" :>
        "\nmultiLineStart[fill] End of ${1:Section} multiLineEnd")
    @@ ("subsection" :>
        "multiLineStart[s]${1:Subsection}\n[fill] multiLineEnd\n\n[s]${2:}\n\nmultiLineStart[s]End of ${1}\n[fill] multiLineEnd")
    @@ ("subsection-header" :>
        "multiLineStart[s]${1:Subsection}\n[fill] multiLineEnd\n")
    @@ ("subsection-footer" :>
        "\nmultiLineStart[s]End of ${1:Subsection}\n[fill] multiLineEnd")
    @@ ("simple" :>
        "singleLineStart[s]${1:Comment}singleLineEnd")
    @@ ("block" :>
        "multiLineStart*\n*\n*[s]${1:Block}\n*\nmultiLineEnd")
    @@ ("todo" :>
        "multiLineStart*\n\n[s:4]TODO:\n[s:4]- First todo item\n[s:4]- Second todo item\n\nmultiLineEnd")

(***************************************************************************)
(* generateCommentPattern                                                  *)
(***************************************************************************)

\* `${language}-${patternKey}`
CacheKey(language, patternKey) == language \o "-" \o patternKey

\* line.replace(/singleLineStart/g, ...).replace(/singleLineEnd/g, ...)
SubstituteSingleLine(line, singleLineStart, singleLineEnd) ==
    replaceAll(replaceAll(line, "singleLineStart", singleLineStart),
               "singleLineEnd", singleLineEnd)

\* line.replace(/multiLineStart/g, start).replace(/multiLineEnd/g, end)
SubstituteMultiLine(line, start, end) ==
    replaceAll(replaceAll(line, "multiLineStart", start), "multiLineEnd", end)

\* line.trim() && !line.includes(singleLineStart): the delimiter is prepended
Prepends(line, singleLineStart) ==
    trim(line) # "" /\ ~includes(line, singleLineStart)

\* SpaceSingleLine that prepends the delimiter to blank lines too
SpaceSingleLine_PrependsToBlank(line, singleLineStart) ==
    IF ~includes(line, singleLineStart) THEN singleLineStart \o " " \o line
    ELSE replace(line, singleLineStart, singleLineStart \o " ")

\* the if / else if of lines 418-423, for a language without multi-line form
SpaceSingleLine(line, singleLineStart) ==
    IF Prepends(line, singleLineStart) THEN singleLineStart \o " " \o line
    ELSE IF includes(line, singleLineStart)
         THEN replace(line, singleLineStart, singleLineStart \o " ")
    ELSE line

\* the spacing of lines 428-438, for a language with a multi-line form
SpaceMultiLine(line, multiLineStart, multiLineEnd) ==
    IF multiLineStart = multiLineEnd
    THEN IF includes(line, multiLineStart)
         THEN replace(line, multiLineStart, multiLineStart \o " ")
         ELSE line
    ELSE IF includes(line, multiLineStart) /\ ~includes(line, multiLineEnd)
         THEN replace(line, multiLineStart, multiLineStart \o " ")
    ELSE IF includes(line, multiLineStart) /\ includes(line, multiLineEnd)
         THEN replace(replace(line, multiLineStart, multiLineStart \o " "),
                      multiLineEnd, " " \o multiLineEnd)
    ELSE line

\* the line handed to adjustLineLength (lines 408-439)
DelimitedLine(rawLine, commentStyle) ==
    IF commentStyle.multiLine.present
    THEN SpaceMultiLine(
             SubstituteMultiLine(
                 SubstituteSingleLine(rawLine, commentStyle.singleLine.start,
                                      commentStyle.singleLine.end),
                 commentStyle.multiLine.start, commentStyle.multiLine.end),
             commentStyle.multiLine.start, commentStyle.multiLine.end)
    ELSE SpaceSingleLine(
             SubstituteMultiLine(
                 SubstituteSingleLine(rawLine, commentStyle.singleLine.start,
                                      commentStyle.singleLine.end),
                 commentStyle.singleLine.start, commentStyle.singleLine.end),
             commentStyle.singleLine.start)

\* hasSingleLineStart when adjustLineLength is called (lines 403, 415, 420)
HasSingleLineStart(rawLine, commentStyle) ==
    \/ includes(rawLine, "singleLineStart")
    \/ /\ ~commentStyle.multiLine.present
       /\ \/ includes(rawLine, "multiLineStart")
          \/ Prepends(SubstituteMultiLine(
                          SubstituteSingleLine(rawLine, commentStyle.singleLine.start,
                                               commentStyle.singleLine.end),
                          commentStyle.singleLine.start,
                          commentStyle.singleLine.end),
                      commentStyle.singleLine.start)

\* hasSingleLineEnd when adjustLineLength is called (lines 404, 416)
HasSingleLineEnd(rawLine, commentStyle) ==
    \/ includes(rawLine, "singleLineEnd")
    \/ ~commentStyle.multiLine.present /\ includes(rawLine, "multiLineEnd")

\* the body of lines.map(line => ...) for one line: token substitution,
\* spacing of the delimiters, then adjustLineLength with the delimiters
\* whose tokens were present
GenerateLine(rawLine, commentStyle, baseLength, separator, placeholderMap) ==
    adjustLineLength(
        DelimitedLine(rawLine, commentStyle), baseLength, separator,
        IF includes(rawLine, "multiLineStart") THEN commentStyle.multiLine.start ELSE "",
        IF includes(rawLine, "multiLineEnd") THEN commentStyle.multiLine.end ELSE "",
        IF HasSingleLineStart(rawLine, commentStyle)
            THEN commentStyle.singleLine.start ELSE "",
        IF HasSingleLineEnd(rawLine, commentStyle)
            THEN commentStyle.singleLine.end ELSE "",
        placeholderMap)

\* one more line rendered: a is what adjustLineLength yielded for it, rest
\* what the remaining lines yield
ConsLine(a, rest) ==
    [out |-> <<a.result>> \o rest.out,
     errors |-> a.errors + rest.errors,
     adjustCalls |-> 1 + rest.adjustCalls]

RECURSIVE MapLines(_, _, _, _, _)
RECURSIVE MapRest(_, _, _, _, _)

\* MapRest with a fresh placeholder map for every line
MapRest_FreshMap(a, lines, commentStyle, baseLength, separator) ==
    ConsLine(a, MapLines(lines, commentStyle, baseLength, separator, EmptyMap))

\* MapRest with the lines after the first rendered one column narrower
MapRest_NarrowsRest(a, lines, commentStyle, baseLength, separator) ==
    ConsLine(a, MapLines(lines, commentStyle, baseLength - 1, separator, a.map))

\* the lines after the first, rendered with the map the first line left
MapRest(a, lines, commentStyle, baseLength, separator) ==
    ConsLine(a, MapLines(lines, commentStyle, baseLength, separator, a.map))

\* lines.map(...) with the one placeholderMap threaded through the lines:
\* the output lines, the error messages logged and the adjuster calls made
MapLines(lines, commentStyle, baseLength, separator, placeholderMap) ==
    IF Len(lines) = 0 THEN [out |-> <<>>, errors |-> 0, adjustCalls |-> 0]
    ELSE MapRest(GenerateLine(lines[1], commentStyle, baseLength, separator,
                              placeholderMap),
                 Tail(lines), commentStyle, baseLength, separator)

\* lines 442-446: the join, the store in the cache and the info message
Assemble(cache, cacheKey, m) ==
    [value |-> join(m.out), cache |-> MapSet(cache, cacheKey, join(m.out)),
     errors |-> m.errors, infos |-> 1, adjustCalls |-> m.adjustCalls]

\* the placeholder map a call that filled the cache left behind
LeftBehind(cache) ==
    IF DOMAIN cache = {} THEN EmptyMap
    ELSE MeasureFrom(cache[CHOOSE k \in DOMAIN cache : TRUE], 1, EmptyMap, "").map

\* GenerateMiss with the placeholder map kept at module level: a call starts
\* with the map an earlier call left behind
GenerateMiss_SharedMap(cache, language, patternKey, pattern, baseLength, separator) ==
    IF language \notin DOMAIN commentStyles
    THEN [value |-> pattern, cache |-> cache,
          errors |-> 1, infos |-> 0, adjustCalls |-> 0]
    ELSE Assemble(cache, CacheKey(language, patternKey),
                  MapLines(split(pattern), commentStyles[language],
                           baseLength, separator, LeftBehind(cache)))

\* generateCommentPattern past the cache check (lines 391-450): the lookup of
\* the style, the rendering of the lines, the store and the info message; for
\* a language outside the registry commentStyle is undefined, reading
\* commentStyle.singleLine raises TypeError and the catch block logs one
\* error and returns the pattern
GenerateMiss(cache, language, patternKey, pattern, baseLength, separator) ==
    IF language \notin DOMAIN commentStyles
    THEN [value |-> pattern, cache |-> cache,
          errors |-> 1, infos |-> 0, adjustCalls |-> 0]
    ELSE Assemble(cache, CacheKey(language, patternKey),
                  MapLines(split(pattern), commentStyles[language],
                           baseLength, separator, EmptyMap))

\* generateCommentPattern without the cache check of lines 387-389
generateCommentPattern_NoCacheCheck(cache, language, patternKey, pattern, baseLength, separator) ==
    GenerateMiss(cache, language, patternKey, pattern, baseLength, separator)

\* generateCommentPattern(language, patternKey, pattern) run against the
\* pattern cache `cache` with the module-level baseLength and separator:
\* the returned string, the cache afterwards, the error and info messages
\* logged and the number of adjustLineLength calls made
generateCommentPattern(cache, language, patternKey, pattern, baseLength, separator) ==
    IF CacheKey(language, patternKey) \in DOMAIN cache
    THEN [value |-> cache[CacheKey(language, patternKey)], cache |-> cache,
          errors |-> 0, infos |-> 0, adjustCalls |-> 0]
    ELSE GenerateMiss(cache, language, patternKey, pattern, baseLength, separator)

(***************************************************************************)
(* replacePlaceholders                                                     *)
(***************************************************************************)

RECURSIVE PreviewFrom(_, _, _, _)
\* PreviewFrom storing every default it meets, as calculateContentLength does
PreviewFrom_LastDefault(s, i, m, out) ==
    LET k == IndexFrom(s, "$", i)
    IN  IF k = 0 THEN out \o SubSeq(s, i, Len(s))
        ELSE LET mt == MatchPlaceholder(s, k)
                 pre == out \o SubSeq(s, i, k - 1)
             IN  IF ~mt.ok THEN PreviewFrom(s, k + 1, m, pre \o "$")
                 ELSE IF mt.p2 # ""
                      THEN PreviewFrom(s, mt.last + 1, MapSet(m, mt.p1, mt.p2),
                                       pre \o mt.p2)
                 ELSE PreviewFrom(s, mt.last + 1, m, pre \o MapGet(m, mt.p1))

\* the replace callback of replacePlaceholders applied from position i; out
\* is the text produced so far, m the local placeholderMap so far
PreviewFrom(s, i, m, out) ==
    LET k == IndexFrom(s, "$", i)
    IN  IF k = 0 THEN out \o SubSeq(s, i, Len(s))
        ELSE LET mt == MatchPlaceholder(s, k)
                 pre == out \o SubSeq(s, i, k - 1)
             IN  IF ~mt.ok THEN PreviewFrom(s, k + 1, m, pre \o "$")
                 ELSE IF MapGet(m, mt.p1) # ""
                      THEN PreviewFrom(s, mt.last + 1, m, pre \o m[mt.p1])
                 ELSE PreviewFrom(s, mt.last + 1, MapSet(m, mt.p1, mt.p2),
                                  pre \o mt.p2)

\* the placeholder-free text cp of replacePlaceholders
PreviewText(commentPattern) == PreviewFrom(commentPattern, 1, EmptyMap, "")

\* the three-backquote code fence; a TLA+ string cannot hold a backquote, so
\* the fence is written with tildes
Fence == "~~~"

replacePlaceholders(commentPattern) ==
    Fence \o "\n" \o PreviewText(commentPattern) \o "\n" \o Fence

(***************************************************************************)
(* State                                                                   *)
(***************************************************************************)

VARIABLES
    patternCache,   \* const patternCache = new Map<string, string>()
    config,         \* what the workspace configuration 'commentToolkit' holds
    loaded,         \* const { baseLength, separator } = getConfiguration()
    arg,            \* the operation last called and its arguments
    ret,            \* what that call returned and logged
    calls,          \* number of operations run so far
    registeredEditors,  \* const registeredEditors = new Map<vscode.TextEditor, string>()
    completionItems,    \* let completionItems: vscode.CompletionItem[] = []
    providers,          \* the languages of the completion providers registered, in order
    registrations,      \* providers registered per <<editor, language>> since registeredEditors was last cleared
    pc,             \* where each running call of generateCommentPattern stands
    computed        \* the local `result` of each running call

\* the state of the editor integration
editors == <<registeredEditors, completionItems, providers, registrations>>

\* the calls of generateCommentPattern that are followed step by step
Callers == {1, 2}

\* the state of the calls followed step by step
callers == <<pc, computed>>

vars == <<patternCache, config, loaded, arg, ret, calls, registeredEditors, completionItems, providers, registrations, pc, computed>>

\* no call is followed step by step
NoCallers ==
    /\ pc = [c \in Callers |-> "idle"]
    /\ computed = [c \in Callers |-> ""]

\* no editor is registered, no item has been built, no provider is registered
NoEditors ==
    /\ registeredEditors = EmptyMap
    /\ completionItems = <<>>
    /\ providers = <<>>
    /\ registrations = EmptyMap

\* config.get<number>('baseLength', 40)
DefaultBaseLength == 40

\* config.get<string>('separator', '=')
DefaultSeparator == "="

DefaultConfig == [baseLength |-> DefaultBaseLength, separator |-> DefaultSeparator]

\* a second base length a user may configure
NarrowBaseLength == 24

\* the configurations a user may set
Configs == {DefaultConfig, [baseLength |-> NarrowBaseLength, separator |-> "-"]}

\* getConfiguration(): reads the workspace configuration cfg
getConfiguration(cfg) == [baseLength |-> cfg.baseLength, separator |-> cfg.separator]

\* nothing has been called yet
NoRet == [op |-> "none"]

NoArg == [op |-> "none"]

(***************************************************************************)
(* The pattern cache under generate calls and configuration changes        *)
(***************************************************************************)

\* longest run of operations explored
MaxCalls == 3

\* language ids passed to generate: registered ones and ones outside the registry
Languages == {"javascript", "git-commit", "git"}

PatternKeys == {"section-header", "commit-section-header"}

\* the template used by the single-line test of the test suite
HelloTemplate == "singleLineStart[s]Hello singleLineEnd"

\* the first line of the section templates
FillTemplate == "[fill]multiLineStart"

Templates == {FillTemplate, HelloTemplate}

\* the module is loaded: the caches are empty and the configuration is read once
Init ==
    /\ patternCache = EmptyMap
    /\ config \in Configs
    /\ loaded = getConfiguration(config)
    /\ arg = NoArg
    /\ ret = NoRet
    /\ calls = 0
    /\ NoEditors
    /\ NoCallers

\* the effects of a call that yielded g: the cache as the call leaves it and
\* what the caller and the logger saw
Returned(g) ==
    /\ patternCache' = g.cache
    /\ ret' = [op |-> "generate", value |-> g.value, errors |-> g.errors,
               infos |-> g.infos, adjustCalls |-> g.adjustCalls]

\* a call generateCommentPattern(language, patternKey, pattern)
Generate(language, patternKey, pattern) ==
    /\ calls < MaxCalls
    /\ Returned(generateCommentPattern(patternCache, language, patternKey, pattern,
                                       loaded.baseLength, loaded.separator))
    /\ arg' = [op |-> "generate", language |-> language,
               patternKey |-> patternKey, pattern |-> pattern]
    /\ calls' = calls + 1
    /\ UNCHANGED <<config, loaded, callers, editors>>

\* the user changes the commentToolkit settings to c: the listener of
\* onDidChangeConfiguration sees affectsConfiguration('commentToolkit'),
\* clears the pattern cache and logs one info message
ConfigurationChanged(c) ==
    /\ calls < MaxCalls
    /\ config' = c
    /\ patternCache' = EmptyMap
    /\ arg' = [op |-> "configurationChanged"]
    /\ ret' = [op |-> "configurationChanged", errors |-> 0, infos |-> 1]
    /\ calls' = calls + 1
    /\ UNCHANGED <<loaded, callers, editors>>

\* a configuration change outside commentToolkit: the listener does nothing
OtherConfigurationChanged ==
    /\ calls < MaxCalls
    /\ arg' = [op |-> "otherConfigurationChanged"]
    /\ ret' = [op |-> "otherConfigurationChanged", errors |-> 0, infos |-> 0]
    /\ calls' = calls + 1
    /\ UNCHANGED <<patternCache, config, loaded, callers, editors>>

Next ==
    \/ \E language \in Languages, patternKey \in PatternKeys, pattern \in Templates :
           Generate(language, patternKey, pattern)
    \/ \E c \in Configs : ConfigurationChanged(c)
    \/ OtherConfigurationChanged

Spec == Init /\ [][Next]_vars

(***************************************************************************)
(* C1 - C3: the pattern cache                                              *)
(***************************************************************************)

\* the step is a call of generateCommentPattern
IsGenerateStep == arg'.op = "generate" /\ calls' = calls + 1

\* C1: for a languageId outside the delimiter registry, generate returns the
\* template unchanged, logs exactly one error-level message and adds no entry
\* to the pattern cache, whatever earlier generate calls for other
\* (languageId, patternKey) pairs left in the cache.
C1_UnknownLanguageFallsBack ==
    [][(IsGenerateStep /\ arg'.language \notin DOMAIN commentStyles)
        => (/\ ret'.value = arg'.pattern
            /\ ret'.errors = 1
            /\ patternCache' = patternCache)]_vars

\* C2: once the cache holds an entry for (languageId, patternKey), a later
\* generate for that pair returns exactly the cached string, calls the line
\* adjuster not once and logs no 'Generated' info message, whatever template
\* is passed.
C2_CacheHitReturnsCachedString ==
    [][(IsGenerateStep
        /\ CacheKey(arg'.language, arg'.patternKey) \in DOMAIN patternCache)
        => (/\ ret'.value = patternCache[CacheKey(arg'.language, arg'.patternKey)]
            /\ ret'.adjustCalls = 0
            /\ ret'.infos = 0
            /\ patternCache' = patternCache)]_vars

\* a registered language was served from the cache with a template whose own
\* rendering differs from the string returned
C2_Witness ==
    /\ arg.op = "generate"
    /\ arg.language \in DOMAIN commentStyles
    /\ ret.infos = 0 /\ ret.errors = 0 /\ ret.adjustCalls = 0
    /\ ret.value # GenerateMiss(EmptyMap, arg.language, arg.patternKey, arg.pattern,
                                loaded.baseLength, loaded.separator).value

\* C3: after a configuration change affecting commentToolkit the pattern
\* cache is empty and the next generate renders with the newly configured
\* base length and separator.
C3_NextGenerateUsesNewConfiguration ==
    [][(IsGenerateStep /\ arg.op = "configurationChanged"
        /\ arg'.language \in DOMAIN commentStyles)
        => (/\ patternCache = EmptyMap
            /\ ret'.value = GenerateMiss(EmptyMap, arg'.language, arg'.patternKey,
                                         arg'.pattern, config.baseLength,
                                         config.separator).value)]_vars

(***************************************************************************)
(* adjustLineLength called directly, as the test suite calls it            *)
(***************************************************************************)

\* the delimiters the test suite passes, delimiters of a language without a
\* multi-line form, and no delimiters at all
DelimiterSets ==
    { [multiLineStart |-> "/*", multiLineEnd |-> "*/",
       singleLineStart |-> "//", singleLineEnd |-> ""],
      [multiLineStart |-> "", multiLineEnd |-> "",
       singleLineStart |-> "#", singleLineEnd |-> ""],
      [multiLineStart |-> "", multiLineEnd |-> "",
       singleLineStart |-> "", singleLineEnd |-> ""] }

\* length of the long content
LongLength == 39

\* a content too long for a line of the default base length
LongContent == repeat("x", LongLength)

Contents ==
    {"", "Hello World", "${1:Section}", "End of ${1}", "[s:4]TODO:", LongContent}

Directives == {"[fill]", "[spaceFill]", ""}

Separators == {"=", "-"}

BaseLengths == {DefaultBaseLength, NarrowBaseLength}

\* the placeholder map of a first line, and of a line after a title line
PlaceholderMaps == {EmptyMap, "1" :> "Title"}

\* lines of the shape  start? directive content end?
AdjustInputs ==
    { [op |-> "adjustLineLength",
       line |-> lead \o directive \o content \o trail,
       baseLength |-> baseLength, separator |-> separator,
       multiLineStart |-> ds.multiLineStart, multiLineEnd |-> ds.multiLineEnd,
       singleLineStart |-> ds.singleLineStart, singleLineEnd |-> ds.singleLineEnd,
       placeholderMap |-> placeholderMap] :
      <<lead, trail, ds>> \in
          { <<lead, trail, ds>> \in
                {"", "/*", "//", "#"} \X {"", "*/"} \X DelimiterSets :
                /\ lead \in {"", ds.multiLineStart, ds.singleLineStart}
                /\ trail \in {"", ds.multiLineEnd} },
      directive \in Directives, content \in Contents,
      baseLength \in BaseLengths, separator \in Separators,
      placeholderMap \in PlaceholderMaps }

\* no call has been made; the arguments of the call to come are drawn
InitAdjust ==
    /\ patternCache = EmptyMap
    /\ config = DefaultConfig
    /\ loaded = getConfiguration(config)
    /\ arg \in AdjustInputs
    /\ ret = NoRet
    /\ calls = 0
    /\ NoEditors
    /\ NoCallers

\* what the caller and the logger saw of a call that yielded a
AdjustReturned(a) ==
    ret' = [op |-> "adjustLineLength", result |-> a.result,
            placeholderMap |-> a.map, errors |-> a.errors]

\* the call adjustLineLength(line, baseLength, separator, ..., placeholderMap)
AdjustLine ==
    /\ arg.op = "adjustLineLength"
    /\ ret = NoRet
    /\ AdjustReturned(adjustLineLength(arg.line, arg.baseLength, arg.separator,
                                       arg.multiLineStart, arg.multiLineEnd,
                                       arg.singleLineStart, arg.singleLineEnd,
                                       arg.placeholderMap))
    /\ calls' = calls + 1
    /\ UNCHANGED <<patternCache, config, loaded, callers, arg, editors>>

NextAdjust == AdjustLine

SpecAdjust == InitAdjust /\ [][NextAdjust]_vars

\* the parts adjustLineLength computes for the arguments a
PartsOf(a) ==
    LineParts(a.line, a.baseLength, a.multiLineStart, a.multiLineEnd,
              a.singleLineStart, a.singleLineEnd, a.placeholderMap)

\* contentLength + startLength + endLength + spacesBetweenParts
MinimumLengthOf(p) ==
    p.contentLength + p.startLength + p.endLength + p.spacesBetweenParts

Max(a, b) == IF a >= b THEN a ELSE b

\* C4, for lines without placeholders: a line with a [fill] directive, base
\* length 40 and a one-character separator is returned with exactly
\* max(40, minimumLength) characters, never fewer than 40.
C4_FillLineHasTargetLength ==
    (/\ ret.op = "adjustLineLength"
     /\ includes(arg.line, "[fill]")
     /\ ~includes(arg.line, "$")
     /\ arg.baseLength = 40)
    => /\ Len(ret.result) = Max(40, MinimumLengthOf(PartsOf(arg)))
       /\ Len(ret.result) >= 40

\* the framed line: start, separator, a spaces, content, b spaces, separator, end
Framed(p, separator, a, b) ==
    p.start \o (IF p.start # "" THEN " " ELSE "") \o separator \o repeat(" ", a)
    \o p.interpretedContent \o repeat(" ", b) \o separator
    \o (IF p.end # "" THEN " " ELSE "") \o p.end

IsFramed(result, baseLength, separator, p) ==
    /\ Len(result) = baseLength
    /\ \E a, b \in 0..baseLength : result = Framed(p, separator, a, b)

\* C5: a line with [spaceFill] and no [fill], whose content has no
\* placeholder and whose minimum length does not exceed baseLength, is
\* returned with exactly baseLength characters: start delimiter, separator,
\* space padding, content, space padding, separator, end delimiter.
C5_SpaceFillLineIsFramed ==
    (/\ ret.op = "adjustLineLength"
     /\ includes(arg.line, "[spaceFill]")
     /\ ~includes(arg.line, "[fill]")
     /\ ~includes(arg.line, "$")
     /\ MinimumLengthOf(PartsOf(arg)) <= arg.baseLength)
    => IsFramed(ret.result, arg.baseLength, arg.separator, PartsOf(arg))

(***************************************************************************)
(* One generate call on an empty cache, for every registered language      *)
(***************************************************************************)

\* plain texts: no marker, token, placeholder or delimiter character
PlainTexts == {"Hello", "This is a comment"}

\* 'singleLineStart[s]X singleLineEnd'
SingleLineTemplate(X) == "singleLineStart[s]" \o X \o " singleLineEnd"

\* 'multiLineStart[s]X[s]multiLineEnd'
MultiLineTemplate(X) == "multiLineStart[s]" \o X \o "[s]multiLineEnd"

\* multi-line templates with body lines between the delimiter lines
BodyTemplates ==
    { "multiLineStart\nnote\nmultiLineEnd",
      "multiLineStart\nsee #1\nmultiLineEnd" }

\* templates whose text is a placeholder: a default of two words written
\* with a space marker, and a default followed by a bare reference
PlaceholderTemplates ==
    { SingleLineTemplate("${1:Hello[s]World}"),
      MultiLineTemplate("${1:Title}${2}") }

\* one-line templates with both multi-line tokens and literal spaces
CommentedTemplates ==
    { "multiLineStart Hello multiLineEnd" }

\* templates whose lines carry placeholders of different indices
TitledTemplates ==
    { "multiLineStart[s]${1:Title}\n[fill] ${2:Note} multiLineEnd" }

\* a section header whose title line is too long for the base length
OverlongTemplates ==
    { "[fill]multiLineStart\n[spaceFill]${1:Title}" \o LongContent
      \o "\n[fill] End of ${1} multiLineEnd" }

\* a block with a whitespace-only line and an empty line inside
BlankLineTemplates ==
    { "multiLineStart\n  \n\nmultiLineEnd" }

\* the templates tried: the nine fixed ones under their keys, the others
\* under a key of their own
TemplateInputs ==
    { <<k, globalPatterns[k]>> : k \in DOMAIN globalPatterns }
    \cup { <<"singleLinePattern", SingleLineTemplate(X)>> : X \in PlainTexts }
    \cup { <<"multiLinePattern", MultiLineTemplate(X)>> : X \in PlainTexts }
    \cup { <<"bodyPattern", t>> : t \in BodyTemplates }
    \cup { <<"placeholderPattern", t>> : t \in PlaceholderTemplates }
    \cup { <<"commentedPattern", t>> : t \in CommentedTemplates }
    \cup { <<"titledPattern", t>> : t \in TitledTemplates }
    \cup { <<"overlongPattern", t>> : t \in OverlongTemplates }
    \cup { <<"blankLinesPattern", t>> : t \in BlankLineTemplates }

\* the module is loaded with the default configuration; the arguments of the
\* one call to come are drawn
InitTemplates ==
    /\ patternCache = EmptyMap
    /\ config = DefaultConfig
    /\ loaded = getConfiguration(config)
    /\ arg \in { [op |-> "generate", language |-> l,
                  patternKey |-> t[1], pattern |-> t[2]] :
                 l \in DOMAIN commentStyles, t \in TemplateInputs }
    /\ ret = NoRet
    /\ calls = 0
    /\ NoEditors
    /\ NoCallers

\* the call generateCommentPattern(language, patternKey, pattern) drawn
GenerateDrawn ==
    /\ ret = NoRet
    /\ Generate(arg.language, arg.patternKey, arg.pattern)

\* the last line of the section template, its title a bare reference
FooterTemplate == "multiLineStart[fill] End of ${1} multiLineEnd"

\* a later call for the same language, under a key of its own
GenerateFooter ==
    /\ ret.op = "generate"
    /\ arg.patternKey # "footerPattern"
    /\ Generate(arg.language, "footerPattern", FooterTemplate)

NextTemplates == GenerateDrawn \/ GenerateFooter

SpecTemplates == InitTemplates /\ [][NextTemplates]_vars

\* s.startsWith(p)
StartsWith(s, p) == Len(s) >= Len(p) /\ SubSeq(s, 1, Len(p)) = p

\* every line of the preview that comes from a template line with a fill
\* directive has exactly n characters
FillLinesHaveLength(templateLines, previewLines, n) ==
    /\ Len(previewLines) = Len(templateLines)
    /\ \A i \in 1..Len(templateLines) :
           (includes(templateLines[i], "[fill]")
            \/ includes(templateLines[i], "[spaceFill]"))
           => Len(previewLines[i]) = n

\* C6: for every registered language and each of the nine fixed templates,
\* with base length 40 and separator '=', every output line that comes from
\* a template line with [fill] or [spaceFill] has exactly 40 characters once
\* its placeholders are replaced by their defaults as replacePlaceholders
\* does; a footer line 'End of ${1}' is padded with the title default of an
\* earlier line.
C6_FixedTemplatesFillToBaseLength ==
    (/\ ret.op = "generate"
     /\ arg.patternKey \in DOMAIN globalPatterns
     /\ loaded = DefaultConfig)
    => FillLinesHaveLength(split(arg.pattern), split(PreviewText(ret.value)), 40)

\* the last line of lines
LastLine(lines) == lines[Len(lines)]

\* the section template was generated: its footer 'End of ${1}' previews as a
\* 40-character line around 'End of Section'
C6_Witness ==
    /\ ret.op = "generate"
    /\ arg.patternKey = "section"
    /\ includes(LastLine(split(arg.pattern)), "End of ${1}")
    /\ includes(LastLine(split(PreviewText(ret.value))), " End of Section ")
    /\ Len(LastLine(split(PreviewText(ret.value)))) = 40

GenericTokens == {"multiLineStart", "multiLineEnd", "singleLineStart", "singleLineEnd"}

\* no generic token is left and every non-blank line begins with start
SingleLineCommented(lines, start) ==
    \A i \in 1..Len(lines) :
        /\ \A t \in GenericTokens : ~includes(lines[i], t)
        /\ trim(lines[i]) # "" => StartsWith(lines[i], start)

\* C7: for every registered language with multiLine = false and every
\* template that uses multiLineStart / multiLineEnd tokens, the output holds
\* no generic token and every non-blank output line begins with the
\* language's single-line start delimiter.
C7_DegradesToSingleLineComments ==
    (/\ ret.op = "generate"
     /\ ~commentStyles[arg.language].multiLine.present
     /\ (includes(arg.pattern, "multiLineStart")
         \/ includes(arg.pattern, "multiLineEnd")))
    => SingleLineCommented(split(ret.value),
                           commentStyles[arg.language].singleLine.start)

\* C8: for every registered language whose single-line end delimiter is
\* empty and every plain text X, generate on 'singleLineStart[s]X
\* singleLineEnd' returns singleLine.start, one space and X, with no trailing
\* space; for javascript and 'Hello' the result is '// Hello'.
C8_SingleLineTemplate ==
    \A X \in PlainTexts :
        (/\ ret.op = "generate"
         /\ arg.pattern = SingleLineTemplate(X)
         /\ commentStyles[arg.language].singleLine.end = "")
        => ret.value = commentStyles[arg.language].singleLine.start \o " " \o X

C8_Witness ==
    /\ ret.op = "generate"
    /\ arg.language = "javascript"
    /\ arg.pattern = SingleLineTemplate("Hello")
    /\ ret.value = "// Hello"

\* C9: for every registered language with a multi-line form and every plain
\* text X, generate on 'multiLineStart[s]X[s]multiLineEnd' returns
\* multiLine.start, a space, X, a space and multiLine.end; for css and
\* 'Hello' the result is '/* Hello */'.
C9_MultiLineTemplate ==
    \A X \in PlainTexts :
        (/\ ret.op = "generate"
         /\ arg.pattern = MultiLineTemplate(X)
         /\ commentStyles[arg.language].multiLine.present)
        => ret.value = commentStyles[arg.language].multiLine.start \o " " \o X
                       \o " " \o commentStyles[arg.language].multiLine.end

(***************************************************************************)
(* calculateContentLength called directly, as the test suite calls it      *)
(***************************************************************************)

\* the pieces a measured text is written from: literal text, the marker
\* [s], a marker [s:N], a placeholder ${index:default} or, with an empty
\* default, the bare reference ${index}
TextPiece(t) == [kind |-> "text", text |-> t]

SpacePiece == [kind |-> "space"]

SpacesPiece(digits, n) == [kind |-> "spaces", digits |-> digits, n |-> n]

PlaceholderPiece(index, default) ==
    [kind |-> "placeholder", index |-> index, default |-> default]

Pieces ==
    { TextPiece("Hello"), TextPiece(" "), SpacePiece, SpacesPiece("3", 3),
      PlaceholderPiece("1", "World"), PlaceholderPiece("1", ""),
      PlaceholderPiece("2", "!"), PlaceholderPiece("1", "Moon") }

\* longest text, in pieces
MaxPieces == 3

\* the text a piece is written as
Written(piece) ==
    CASE piece.kind = "text" -> piece.text
      [] piece.kind = "space" -> "[s]"
      [] piece.kind = "spaces" -> "[s:" \o piece.digits \o "]"
      [] piece.kind = "placeholder" ->
            IF piece.default = "" THEN "${" \o piece.index \o "}"
            ELSE "${" \o piece.index \o ":" \o piece.default \o "}"

RECURSIVE WrittenAll(_)
WrittenAll(pieces) ==
    IF Len(pieces) = 0 THEN "" ELSE Written(pieces[1]) \o WrittenAll(Tail(pieces))

PieceSeqs == UNION { [1..n -> Pieces] : n \in 0..MaxPieces }

\* no call has been made; the text and the map of the call to come are drawn
InitMeasure ==
    /\ patternCache = EmptyMap
    /\ config = DefaultConfig
    /\ loaded = getConfiguration(config)
    /\ arg \in { [op |-> "calculateContentLength", pieces |-> ps,
                  content |-> WrittenAll(ps), placeholderMap |-> m] :
                 ps \in PieceSeqs, m \in PlaceholderMaps }
    /\ ret = NoRet
    /\ calls = 0
    /\ NoEditors
    /\ NoCallers

\* what the caller saw of a call that yielded r
MeasureReturned(r) ==
    ret' = [op |-> "calculateContentLength", length |-> r.length,
            placeholderMap |-> r.map]

\* the call calculateContentLength(content, placeholderMap)
MeasureContent ==
    /\ arg.op = "calculateContentLength"
    /\ ret = NoRet
    /\ MeasureReturned(calculateContentLength(arg.content, arg.placeholderMap))
    /\ calls' = calls + 1
    /\ UNCHANGED <<patternCache, config, loaded, callers, arg, editors>>

\* most calls made on one placeholder map
MaxMeasures == 2

\* the texts of a later call on the same map: the second call of the test
\* "should handle empty placeholders", a lone bare reference, a reference
\* carrying another default
FollowUps ==
    { <<TextPiece("Hello "), PlaceholderPiece("1", ""), TextPiece(" !")>>,
      <<PlaceholderPiece("2", "")>>,
      <<PlaceholderPiece("1", "Moon"), PlaceholderPiece("1", "")>> }

\* a later call calculateContentLength(content, placeholderMap) on the map
\* the earlier call was given and left behind
MeasureAgain ==
    /\ arg.op = "calculateContentLength"
    /\ ret # NoRet
    /\ calls < MaxMeasures
    /\ \E ps \in FollowUps :
          /\ arg' = [op |-> "calculateContentLength", pieces |-> ps,
                     content |-> WrittenAll(ps),
                     placeholderMap |-> ret.placeholderMap]
          /\ MeasureReturned(calculateContentLength(WrittenAll(ps),
                                                    ret.placeholderMap))
    /\ calls' = calls + 1
    /\ UNCHANGED <<patternCache, config, loaded, callers, editors>>

NextMeasure == MeasureContent \/ MeasureAgain

SpecMeasure == InitMeasure /\ [][NextMeasure]_vars

\* the value a placeholder piece resolves to under the map m
Resolved(piece, m) ==
    IF piece.default # "" THEN piece.default
    ELSE IF piece.index \in DOMAIN m THEN m[piece.index] ELSE ""

\* the map after a piece: a default is stored under its index
Stored(piece, m) ==
    IF piece.kind = "placeholder" /\ piece.default # ""
    THEN (piece.index :> piece.default) @@ m
    ELSE m

\* the number of characters a piece takes once markers are expanded and the
\* placeholder is replaced by its resolved value
PieceLength(piece, m) ==
    CASE piece.kind = "text" -> Len(piece.text)
      [] piece.kind = "space" -> 1
      [] piece.kind = "spaces" -> piece.n
      [] piece.kind = "placeholder" -> Len(Resolved(piece, m))

RECURSIVE ResolvedLength(_, _)
ResolvedLength(pieces, m) ==
    IF Len(pieces) = 0 THEN 0
    ELSE PieceLength(pieces[1], m)
         + ResolvedLength(Tail(pieces), Stored(pieces[1], m))

\* the pieces of the text that carry a non-empty default
DefaultPieces(pieces) ==
    { i \in 1..Len(pieces) :
        pieces[i].kind = "placeholder" /\ pieces[i].default # "" }

\* the default d of ${n:d} is stored under n: the map holds, for the index of
\* every defaulted piece, the default of the last such piece with that index
DefaultsStored(pieces, m) ==
    \A i \in DefaultPieces(pieces) :
        (\A j \in DefaultPieces(pieces) :
            pieces[j].index = pieces[i].index => j <= i)
        => /\ pieces[i].index \in DOMAIN m
           /\ m[pieces[i].index] = pieces[i].default

\* C10: on a text containing a placeholder with a non-empty default ${n:d},
\* contentLength stores d under key n and returns the length of the text
\* with space markers expanded and every placeholder replaced by its
\* resolved value, not the length of the template text.
C10_ContentLengthOfResolvedText ==
    (/\ ret.op = "calculateContentLength"
     /\ DefaultPieces(arg.pieces) # {})
    => /\ DefaultsStored(arg.pieces, ret.placeholderMap)
       /\ ret.length = ResolvedLength(arg.pieces, arg.placeholderMap)

\* 'Hello ${1:World}' was measured: 11, not the 16 characters of the
\* template, and 'World' is stored under '1'
C10_Witness ==
    /\ ret.op = "calculateContentLength"
    /\ arg.content = "Hello ${1:World}"
    /\ arg.placeholderMap = EmptyMap
    /\ ret.length = 11
    /\ Len(arg.content) = 16
    /\ ret.placeholderMap["1"] = "World"

(***************************************************************************)
(* Bare references                                                         *)
(***************************************************************************)

RECURSIVE MapAfter(_, _)
\* the map after the pieces, each default stored in turn
MapAfter(pieces, m) ==
    IF Len(pieces) = 0 THEN m
    ELSE MapAfter(Tail(pieces), Stored(pieces[1], m))

\* the positions of the bare references ${n} of the text
BarePieces(pieces) ==
    { i \in 1..Len(pieces) :
        pieces[i].kind = "placeholder" /\ pieces[i].default = "" }

\* the pieces before position i, and those after it
Before(pieces, i) == SubSeq(pieces, 1, i - 1)

After(pieces, i) == SubSeq(pieces, i + 1, Len(pieces))

\* the bare reference at position i takes the length of the value stored for
\* its index when it is reached (nothing when none is stored) and hands the
\* map on as it found it: stored is the map the pieces before it leave
BareMeasuredAsStored(pieces, i, m, stored, length, map) ==
    /\ length = ResolvedLength(Before(pieces, i), m)
                + Len(MapGet(stored, pieces[i].index))
                + ResolvedLength(After(pieces, i), stored)
    /\ map = MapAfter(After(pieces, i), stored)

\* C11: a bare reference ${n} is measured by calculateContentLength as the
\* value stored for n in the placeholder map when the reference is reached,
\* whether an earlier placeholder of the same text or an earlier call on
\* the same map stored it, and as the empty string when nothing is stored;
\* the bare reference leaves the map unchanged.
C11_BareReferenceMeasuredAsStored ==
    ret.op = "calculateContentLength"
    => \A i \in BarePieces(arg.pieces) :
          BareMeasuredAsStored(arg.pieces, i, arg.placeholderMap,
                               MapAfter(Before(arg.pieces, i), arg.placeholderMap),
                               ret.length, ret.placeholderMap)

\* the second call of the test "should handle empty placeholders":
\* 'Hello ${1} !' measures 13 on a map in which an earlier call stored World
C11_Witness ==
    /\ ret.op = "calculateContentLength"
    /\ calls = 2
    /\ arg.content = "Hello ${1} !"
    /\ arg.placeholderMap = ("1" :> "World")
    /\ ret.length = 13
    /\ ret.placeholderMap = ("1" :> "World")

(***************************************************************************)
(* interpretSpaces called directly, as the test suite calls it             *)
(***************************************************************************)

\* what a text is written from: words, the markers, and the fragments of
\* markers
SpaceParts ==
    {"Hello", "!", "[s]", "[s:4]", "[s:2]", "[s:0]", "[s:10]", "[", "s]", "[s:", "1]"}

\* longest text, in parts
MaxParts == 3

RECURSIVE Concat(_)
Concat(parts) == IF Len(parts) = 0 THEN "" ELSE parts[1] \o Concat(Tail(parts))

\* the inputs of the suite "interpretSpaces Tests"
TestTexts ==
    {"Hello[s]World", "Hello[s:4]World", "Hello[s]World[s:2]!", "Hello World!"}

SpaceTexts ==
    TestTexts
    \cup { Concat(parts) : parts \in UNION { [1..n -> SpaceParts] : n \in 0..MaxParts } }

\* most applications in a row
MaxPasses == 2

\* no call has been made; the text of the call to come is drawn
InitSpaces ==
    /\ patternCache = EmptyMap
    /\ config = DefaultConfig
    /\ loaded = getConfiguration(config)
    /\ arg \in { [op |-> "interpretSpaces", content |-> t, first |-> t] :
                 t \in SpaceTexts }
    /\ ret = NoRet
    /\ calls = 0
    /\ NoEditors
    /\ NoCallers

\* the call interpretSpaces(content)
InterpretSpaces ==
    /\ arg.op = "interpretSpaces"
    /\ ret = NoRet
    /\ ret' = [op |-> "interpretSpaces", result |-> interpretSpaces(arg.content)]
    /\ calls' = calls + 1
    /\ UNCHANGED <<patternCache, config, loaded, callers, arg, editors>>

\* interpretSpaces applied to what the call before returned; first stays the
\* text the first call was given
InterpretAgain ==
    /\ arg.op = "interpretSpaces"
    /\ ret # NoRet
    /\ calls < MaxPasses
    /\ arg' = [op |-> "interpretSpaces", content |-> ret.result,
               first |-> arg.first]
    /\ ret' = [op |-> "interpretSpaces", result |-> interpretSpaces(ret.result)]
    /\ calls' = calls + 1
    /\ UNCHANGED <<patternCache, config, loaded, callers, editors>>

NextSpaces == InterpretSpaces \/ InterpretAgain

SpecSpaces == InitSpaces /\ [][NextSpaces]_vars

\* the position of the "]" closing a marker [s:N] that starts the text s,
\* 0 when s does not start with such a marker
CountMarkerEnd(s) ==
    IF Len(s) >= 5 /\ SubSeq(s, 1, 3) = "[s:"
       /\ \E j \in 5..Len(s) :
              Ch(s, j) = "]" /\ \A k \in 4..(j - 1) : IsDigit(Ch(s, k))
    THEN CHOOSE j \in 5..Len(s) :
              Ch(s, j) = "]" /\ \A k \in 4..(j - 1) : IsDigit(Ch(s, k))
    ELSE 0

RECURSIVE ExpandMarkers(_)
\* the text with every marker it contains replaced, read once from left to
\* right: [s] by one space, [s:N] by N spaces, any other character kept
ExpandMarkers(s) ==
    IF Len(s) = 0 THEN ""
    ELSE IF Len(s) >= 3 /\ SubSeq(s, 1, 3) = "[s]"
         THEN " " \o ExpandMarkers(SubSeq(s, 4, Len(s)))
    ELSE IF CountMarkerEnd(s) > 0
         THEN repeat(" ", parseInt(SubSeq(s, 4, CountMarkerEnd(s) - 1)))
              \o ExpandMarkers(SubSeq(s, CountMarkerEnd(s) + 1, Len(s)))
    ELSE Ch(s, 1) \o ExpandMarkers(SubSeq(s, 2, Len(s)))

\* the text s contains a marker [s] or [s:N]
HasMarker(s) ==
    \E i \in 1..Len(s) :
        /\ i + 2 <= Len(s)
        /\ \/ SubSeq(s, i, i + 2) = "[s]"
           \/ CountMarkerEnd(SubSeq(s, i, Len(s))) > 0

\* C12: interpretSpaces replaces every marker [s:N] of the text by exactly N
\* spaces and every marker [s] by exactly one space, and leaves every other
\* character in place and in order; a text without markers is returned
\* unchanged.
C12_MarkersReplacedOthersKept ==
    ret.op = "interpretSpaces" => ret.result = ExpandMarkers(arg.content)

\* C13: interpretSpaces is idempotent: when the result of the first
\* application is free of markers, applying interpretSpaces to it returns it
\* unchanged.
C13_Idempotent ==
    (/\ ret.op = "interpretSpaces"
     /\ calls = 2
     /\ ~HasMarker(arg.content))
    => ret.result = arg.content

\* the second application to the result of 'Hello[s]World[s:2]!'
C13_Witness ==
    /\ ret.op = "interpretSpaces"
    /\ calls = 2
    /\ arg.first = "Hello[s]World[s:2]!"
    /\ arg.content = "Hello World  !"
    /\ ~HasMarker(arg.content)
    /\ ret.result = "Hello World  !"

(***************************************************************************)
(* adjustLineLength: failure and the fill budget                           *)
(***************************************************************************)

\* the line carries a fill directive
HasDirective(line) == includes(line, "[fill]") \/ includes(line, "[spaceFill]")

\* the repetition of the filler fails: the budget left for it is negative
FillFails(a) == HasDirective(a.line) /\ PartsOf(a).fillLength < 0

ZeroFiller(line, separator, p) ==
    IF includes(line, "[fill]") THEN FillLine(p, "", "")
    ELSE SpaceFillLine(p, separator, "", "")

\* C18: the fill budget is never negative, the effective target width being
\* max(baseLength, minimumLength): a line with a [fill] or [spaceFill]
\* directive whose content and delimiters need more than baseLength
\* characters is rendered with its delimiters, its full content and zero
\* filler characters, no error is reported and no directive text is left in
\* the result.
C18_FillBudgetNeverNegative ==
    (/\ ret.op = "adjustLineLength"
     /\ HasDirective(arg.line)
     /\ MinimumLengthOf(PartsOf(arg)) > arg.baseLength)
    => /\ ret.errors = 0
       /\ ~HasDirective(ret.result)
       /\ ret.result = ZeroFiller(arg.line, arg.separator, PartsOf(arg))

(***************************************************************************)
(* Placeholders in the generated text                                      *)
(***************************************************************************)

\* the position of the first "$" of s at or after position i, 0 when none
NextDollar(s, i) ==
    IF \E k \in i..Len(s) : Ch(s, k) = "$"
    THEN CHOOSE k \in i..Len(s) :
             Ch(s, k) = "$" /\ \A h \in i..(k - 1) : Ch(s, h) # "$"
    ELSE 0

RECURSIVE OccurrencesFrom(_, _)
\* the placeholder occurrences ${n} and ${n:default} of s from position i
\* on, as written, in order
OccurrencesFrom(s, i) ==
    IF NextDollar(s, i) = 0 THEN <<>>
    ELSE IF MatchPlaceholder(s, NextDollar(s, i)).ok
         THEN <<SubSeq(s, NextDollar(s, i),
                       MatchPlaceholder(s, NextDollar(s, i)).last)>>
              \o OccurrencesFrom(s, MatchPlaceholder(s, NextDollar(s, i)).last + 1)
    ELSE OccurrencesFrom(s, NextDollar(s, i) + 1)

Occurrences(s) == OccurrencesFrom(s, 1)

\* C15: generateCommentPattern leaves the numbered placeholders intact: for
\* a registered language the placeholder occurrences of the output are,
\* verbatim and in order, the placeholder occurrences of the template;
\* defaults are measured, never substituted or rewritten.
C15_PlaceholdersLeftIntact ==
    (/\ ret.op = "generate"
     /\ arg.language \in DOMAIN commentStyles)
    => Occurrences(ret.value) = Occurrences(arg.pattern)

(***************************************************************************)
(* replacePlaceholders on generated patterns, as updateCompletionItems     *)
(* calls it                                                                *)
(***************************************************************************)

\* languages whose fixed templates are previewed
PreviewLanguages == {"javascript", "yaml", "html"}

\* the strings previewed: the fixed templates generated for a language, and
\* the texts written from pieces
PreviewInputs ==
    { generateCommentPattern(EmptyMap, l, k, globalPatterns[k],
                             DefaultBaseLength, DefaultSeparator).value :
          l \in PreviewLanguages, k \in DOMAIN globalPatterns }
    \cup { WrittenAll(ps) : ps \in PieceSeqs }

\* most previews made in a row
MaxPreviews == 2

\* no call has been made; the string of the call to come is drawn
InitPreview ==
    /\ patternCache = EmptyMap
    /\ config = DefaultConfig
    /\ loaded = getConfiguration(config)
    /\ arg \in { [op |-> "replacePlaceholders", commentPattern |-> t] :
                 t \in PreviewInputs }
    /\ ret = NoRet
    /\ calls = 0
    /\ NoEditors
    /\ NoCallers

\* the call replacePlaceholders(commentPattern)
ReplacePlaceholders ==
    /\ arg.op = "replacePlaceholders"
    /\ ret = NoRet
    /\ ret' = [op |-> "replacePlaceholders",
               result |-> replacePlaceholders(arg.commentPattern)]
    /\ calls' = calls + 1
    /\ UNCHANGED <<patternCache, config, loaded, callers, arg, editors>>

\* a later call replacePlaceholders(commentPattern), for the next item
ReplaceAgain ==
    /\ arg.op = "replacePlaceholders"
    /\ ret # NoRet
    /\ calls < MaxPreviews
    /\ \E ps \in FollowUps :
          /\ arg' = [op |-> "replacePlaceholders", commentPattern |-> WrittenAll(ps)]
          /\ ret' = [op |-> "replacePlaceholders",
                     result |-> replacePlaceholders(WrittenAll(ps))]
    /\ calls' = calls + 1
    /\ UNCHANGED <<patternCache, config, loaded, callers, editors>>

NextPreview == ReplacePlaceholders \/ ReplaceAgain

SpecPreview == InitPreview /\ [][NextPreview]_vars

\* the occurrence that starts at position k: where it starts and ends, its
\* index and its default
OccurrenceAt(s, k) ==
    [from |-> k, last |-> MatchPlaceholder(s, k).last,
     p1 |-> MatchPlaceholder(s, k).p1, p2 |-> MatchPlaceholder(s, k).p2]

RECURSIVE OccurrenceRecords(_, _)
\* the placeholder occurrences of s from position i on, in order
OccurrenceRecords(s, i) ==
    IF NextDollar(s, i) = 0 THEN <<>>
    ELSE IF MatchPlaceholder(s, NextDollar(s, i)).ok
         THEN <<OccurrenceAt(s, NextDollar(s, i))>>
              \o OccurrenceRecords(s, MatchPlaceholder(s, NextDollar(s, i)).last + 1)
    ELSE OccurrenceRecords(s, NextDollar(s, i) + 1)

\* occurrence i carries a default for the index of occurrence j
DefaultFor(occs, i, j) == occs[i].p1 = occs[j].p1 /\ occs[i].p2 # ""

\* the first default seen for the index of occurrence j up to j itself, the
\* empty string when none has been seen
FirstDefault(occs, j) ==
    IF \E i \in 1..j : DefaultFor(occs, i, j)
    THEN occs[CHOOSE i \in 1..j :
                  /\ DefaultFor(occs, i, j)
                  /\ \A h \in 1..(i - 1) : ~DefaultFor(occs, h, j)].p2
    ELSE ""

RECURSIVE Stitch(_, _, _, _)
\* the text of s from position pos on, the occurrences from the j-th on
\* replaced by the first default seen for their index
Stitch(s, occs, j, pos) ==
    IF j > Len(occs) THEN SubSeq(s, pos, Len(s))
    ELSE SubSeq(s, pos, occs[j].from - 1) \o FirstDefault(occs, j)
         \o Stitch(s, occs, j + 1, occs[j].last + 1)

\* result is text between two code fences
Fenced(result, text) == result = Fence \o "\n" \o text \o "\n" \o Fence

PatternKeyOrder ==
    <<"section", "section-header", "section-footer", "subsection",
      "subsection-header", "subsection-footer", "simple", "block", "todo">>

\* the completion item built from a generated pattern (lines 481-483)
Item(patternKey, commentPattern) ==
    [label |-> "comm::" \o patternKey,
     documentation |-> replacePlaceholders(commentPattern),
     insertText |-> commentPattern]

\* completionItems.push(item) ahead of the items the later keys yield
ConsItem(item, u) == [items |-> <<item>> \o u.items, cache |-> u.cache]

RECURSIVE UpdateFrom(_, _, _, _, _)
RECURSIVE PushItem(_, _, _, _, _, _)

\* the item of one key, built from what generateCommentPattern yielded, then
\* the later keys against the cache that call left
PushItem(patternKey, g, keys, language, baseLength, separator) ==
    ConsItem(Item(patternKey, g.value),
             UpdateFrom(g.cache, language, keys, baseLength, separator))

\* the loop of updateCompletionItems over the keys still to visit
UpdateFrom(cache, language, keys, baseLength, separator) ==
    IF Len(keys) = 0 THEN [items |-> <<>>, cache |-> cache]
    ELSE PushItem(keys[1],
                  generateCommentPattern(cache, language, keys[1],
                                         globalPatterns[keys[1]],
                                         baseLength, separator),
                  Tail(keys), language, baseLength, separator)

\* updateCompletionItems(language) run against the pattern cache `cache`:
\* the new value of the one module-level completionItems and the cache
\* afterwards
updateCompletionItems(cache, language, baseLength, separator) ==
    UpdateFrom(cache, language, PatternKeyOrder, baseLength, separator)

RECURSIVE Deduplicated(_, _)
\* the forEach of provideCompletionItems: the first item of every label
Deduplicated(items, uniqueCompletionItems) ==
    IF Len(items) = 0 THEN <<>>
    ELSE IF items[1].label \in uniqueCompletionItems
         THEN Deduplicated(Tail(items), uniqueCompletionItems)
    ELSE <<items[1]>>
         \o Deduplicated(Tail(items), uniqueCompletionItems \cup {items[1].label})

\* the editors of the window
Editors == {"editor1", "editor2"}

\* the language ids of their documents: two registered ones and one outside
\* the registry
EditorLanguages == {"javascript", "yaml", "cobol"}

\* longest run of editor events explored
MaxEvents == 4

\* the module is loaded and activate has found no active editor
InitEditors ==
    /\ patternCache = EmptyMap
    /\ config = DefaultConfig
    /\ loaded = getConfiguration(config)
    /\ arg = NoArg
    /\ ret = NoRet
    /\ calls = 0
    /\ NoEditors
    /\ NoCallers

\* the number of providers registered for editor and language since
\* registeredEditors was last cleared
Registrations(r, editor, language) ==
    IF <<editor, language>> \in DOMAIN r THEN r[<<editor, language>>] ELSE 0

\* the effects of updateCompletionItems having yielded u, and of the
\* registration of the provider for language that follows it
ProviderRegistered(u, language) ==
    /\ completionItems' = u.items
    /\ patternCache' = u.cache
    /\ providers' = Append(providers, language)
    /\ ret' = [op |-> "registerProviderForActiveEditor", registered |-> TRUE,
               infos |-> 1, warnings |-> 0]

\* registerProviderForActiveEditor(editor), the document of editor having
\* the language id language: called by activate and by the listeners of
\* onDidChangeActiveTextEditor, onDidOpenTextDocument and
\* onDidChangeTextDocument
RegisterProviderForActiveEditor(editor, language) ==
    /\ calls < MaxEvents
    /\ arg' = [op |-> "registerProviderForActiveEditor", editor |-> editor,
               language |-> language]
    /\ calls' = calls + 1
    /\ UNCHANGED <<config, loaded, callers>>
    /\ IF editor \in DOMAIN registeredEditors /\ registeredEditors[editor] = language
       THEN /\ ret' = [op |-> "registerProviderForActiveEditor",
                       registered |-> FALSE, infos |-> 0, warnings |-> 0]
            /\ UNCHANGED <<patternCache, editors>>
       ELSE /\ registeredEditors' = MapSet(registeredEditors, editor, language)
            /\ IF language \in DOMAIN commentStyles
               THEN /\ ProviderRegistered(
                           updateCompletionItems(patternCache, language,
                                                 loaded.baseLength, loaded.separator),
                           language)
                    /\ registrations' = MapSet(registrations, <<editor, language>>,
                               Registrations(registrations, editor, language) + 1)
               ELSE /\ ret' = [op |-> "registerProviderForActiveEditor",
                               registered |-> FALSE, infos |-> 0, warnings |-> 1]
                    /\ UNCHANGED <<patternCache, completionItems, providers, registrations>>

\* the editor asks the provider registered for language for its items:
\* provideCompletionItems() of lines 514-523
ProvideCompletionItems(language) ==
    /\ calls < MaxEvents
    /\ \E i \in 1..Len(providers) : providers[i] = language
    /\ arg' = [op |-> "provideCompletionItems", language |-> language]
    /\ ret' = [op |-> "provideCompletionItems",
               items |-> Deduplicated(completionItems, {})]
    /\ calls' = calls + 1
    /\ UNCHANGED <<patternCache, config, loaded, callers, editors>>

\* deactivate(), and the dispose of the subscription pushed by activate
Deactivate ==
    /\ calls < MaxEvents
    /\ registeredEditors' = EmptyMap
    /\ registrations' = EmptyMap
    /\ arg' = [op |-> "deactivate"]
    /\ ret' = [op |-> "deactivate"]
    /\ calls' = calls + 1
    /\ UNCHANGED <<patternCache, config, loaded, callers, completionItems, providers>>

NextEditors ==
    \/ \E editor \in Editors, language \in EditorLanguages :
           RegisterProviderForActiveEditor(editor, language)
    \/ \E language \in EditorLanguages : ProvideCompletionItems(language)
    \/ Deactivate
    \/ \E c \in Configs : calls < MaxEvents /\ ConfigurationChanged(c)

SpecEditors == InitEditors /\ [][NextEditors]_vars

\* the insert texts of items, in order
InsertTexts(items) == [i \in 1..Len(items) |-> items[i].insertText]

\* the nine fixed templates generated for language, in the order of the keys
GeneratedFor(language, baseLength, separator) ==
    [i \in 1..Len(PatternKeyOrder) |->
        GenerateMiss(EmptyMap, language, PatternKeyOrder[i],
                     globalPatterns[PatternKeyOrder[i]], baseLength, separator).value]

\* C17: in any sequence of editor activations over editors of different
\* supported languages, the completion provider registered for a language L
\* returns items whose insert texts were generated with L's own comment
\* delimiters, never the items generated for a language registered later.
C17_ProviderReturnsOwnLanguageItems ==
    ret.op = "provideCompletionItems"
    => InsertTexts(ret.items)
       = GeneratedFor(arg.language, loaded.baseLength, loaded.separator)

(***************************************************************************)
(* Several defaults for one index                                          *)
(***************************************************************************)

\* the map after a piece when the first default stored for an index is kept
Fixed(piece, m) ==
    IF piece.kind = "placeholder" /\ piece.default # "" /\ MapGet(m, piece.index) = ""
    THEN (piece.index :> piece.default) @@ m
    ELSE m

\* the number of characters a piece takes when every occurrence of an index
\* is measured with the first default stored for it
FirstDefaultPieceLength(piece, m) ==
    CASE piece.kind = "text" -> Len(piece.text)
      [] piece.kind = "space" -> 1
      [] piece.kind = "spaces" -> piece.n
      [] piece.kind = "placeholder" -> Len(MapGet(Fixed(piece, m), piece.index))

RECURSIVE FirstDefaultLength(_, _)
FirstDefaultLength(pieces, m) ==
    IF Len(pieces) = 0 THEN 0
    ELSE FirstDefaultPieceLength(pieces[1], m)
         + FirstDefaultLength(Tail(pieces), Fixed(pieces[1], m))

\* C19: within one generate call, that is over the life of one placeholder
\* map, the first occurrence of an index carrying a default fixes the value
\* for that index: every later occurrence of the index, bare or carrying a
\* different default, is measured with the first default.
C19_FirstDefaultFixesValue ==
    ret.op = "calculateContentLength"
    => ret.length = FirstDefaultLength(arg.pieces, arg.placeholderMap)

\* the occurrence at position i carries the default d: it is measured as d,
\* d is stored under its index over whatever was stored, and the pieces
\* after it are measured against the map so updated; stored is the map the
\* pieces before it leave
DefaultMeasuredAndStored(pieces, i, m, stored, length, map) ==
    /\ length = ResolvedLength(Before(pieces, i), m)
                + Len(pieces[i].default)
                + ResolvedLength(After(pieces, i),
                                 (pieces[i].index :> pieces[i].default) @@ stored)
    /\ map = MapAfter(After(pieces, i),
                      (pieces[i].index :> pieces[i].default) @@ stored)

\* C20: in calculateContentLength every occurrence ${n:d} carrying a
\* default d stores d under n, overwriting any value stored earlier for n,
\* and is measured as d; a bare ${n} after it is measured with the most
\* recently stored default.
C20_DefaultOverwritesStoredValue ==
    ret.op = "calculateContentLength"
    => \A i \in DefaultPieces(arg.pieces) :
          DefaultMeasuredAndStored(arg.pieces, i, arg.placeholderMap,
                                   MapAfter(Before(arg.pieces, i), arg.placeholderMap),
                                   ret.length, ret.placeholderMap)

\* two defaults for index 1, then a bare reference: 5 + 4 + 4 characters,
\* and the map holds the later default
C20_Witness ==
    /\ ret.op = "calculateContentLength"
    /\ arg.content = "${1:World}${1:Moon}${1}"
    /\ arg.placeholderMap = EmptyMap
    /\ ret.length = 13
    /\ ret.placeholderMap = ("1" :> "Moon")

(***************************************************************************)
(* The placeholder map of a generate call                                  *)
(***************************************************************************)

\* C21: the placeholder map is scoped to one generate call: a call that
\* misses the cache starts with an empty map, so a bare ${n} with no earlier
\* ${n:default} in the same template is measured as empty whatever defaults
\* an earlier call recorded (the footer line fills to the base length with
\* its title empty), and the pattern cache holds generated strings under
\* cache keys only, no placeholder value.
C21_PlaceholderMapScopedToCall ==
    (/\ ret.op = "generate"
     /\ arg.pattern = FooterTemplate
     /\ ret.infos = 1)
    => /\ Len(PreviewText(ret.value)) = loaded.baseLength
       /\ includes(ret.value, " End of ${1} ")
       /\ Len(ret.value) = loaded.baseLength + Len("${1}")
       /\ patternCache[CacheKey(arg.language, arg.patternKey)] = ret.value
       /\ \A k \in DOMAIN patternCache :
              \E t \in TemplateInputs \cup {<<"footerPattern", FooterTemplate>>} :
                  k = CacheKey(arg.language, t[1])

\* the footer generated after the section header, whose title line stored
\* the default Section: the footer is filled as if its title were empty
C21_Witness ==
    /\ ret.op = "generate"
    /\ calls = 2
    /\ arg.language = "javascript"
    /\ arg.pattern = FooterTemplate
    /\ CacheKey("javascript", "section-header") \in DOMAIN patternCache
    /\ includes(patternCache[CacheKey("javascript", "section-header")], "${1:Section}")
    /\ ret.value = "/* ============ End of ${1} ============= */"

(***************************************************************************)
(* The caches after deactivation and after a configuration change          *)
(***************************************************************************)

\* C22: the pattern cache and the per-editor registration cache start
\* empty, are filled on use, and are both empty immediately after each of
\* the two triggers: deactivation and a configuration change.
C22_BothCachesEmptyAfterTrigger ==
    (calls = 0 \/ arg.op \in {"deactivate", "configurationChanged"})
    => /\ patternCache = EmptyMap
       /\ registeredEditors = EmptyMap

(***************************************************************************)
(* Spaces inside the multi-line delimiters                                 *)
(***************************************************************************)

\* s.endsWith(p)
EndsWith(s, p) == Len(s) >= Len(p) /\ SubSeq(s, Len(s) - Len(p) + 1, Len(s)) = p

\* the template line begins with the multiLineStart token and ends with the
\* multiLineEnd token
HasBothTokens(line) ==
    StartsWith(line, "multiLineStart") /\ EndsWith(line, "multiLineEnd")

\* every output line that comes from a template line with both tokens has
\* a space after the start delimiter and a space before the end delimiter
SpacedInside(templateLines, outLines, multiLine) ==
    /\ Len(outLines) = Len(templateLines)
    /\ \A i \in 1..Len(templateLines) :
           HasBothTokens(templateLines[i])
           => /\ StartsWith(outLines[i], multiLine.start \o " ")
              /\ EndsWith(outLines[i], " " \o multiLine.end)

\* C23: for a language whose multi-line start and end delimiters differ, a
\* template line that carries both the multiLineStart and the multiLineEnd
\* token is generated with a space immediately after the start delimiter
\* and a space immediately before the end delimiter.
C23_SpacesInsideDelimiters ==
    (/\ ret.op = "generate"
     /\ commentStyles[arg.language].multiLine.present
     /\ commentStyles[arg.language].multiLine.start
          # commentStyles[arg.language].multiLine.end)
    => SpacedInside(split(arg.pattern), split(ret.value),
                    commentStyles[arg.language].multiLine)

(***************************************************************************)
(* The two filler runs                                                     *)
(***************************************************************************)

\* a line with left filler characters before the content and right after
\* it, the content set off by inner on each side when it is not empty
Halved(p, outer, filler, inner, left, right) ==
    p.start \o (IF p.start # "" THEN " " ELSE "") \o outer
    \o repeat(filler, left)
    \o (IF p.interpretedContent # ""
        THEN inner \o p.interpretedContent \o inner ELSE "")
    \o repeat(filler, right)
    \o outer \o (IF p.end # "" THEN " " ELSE "") \o p.end

\* the result has floor(fillLength / 2) filler characters left of the
\* content and the rest of fillLength right of it
HalvedResult(line, result, separator, p) ==
    IF includes(line, "[fill]")
    THEN result = Halved(p, "", separator, " ", p.fillLength \div 2,
                         p.fillLength - p.fillLength \div 2)
    ELSE result = Halved(p, separator, " ", "", p.fillLength \div 2,
                         p.fillLength - p.fillLength \div 2)

\* C24: for a line with a fill directive and fillLength >= 0, the filler
\* run left of the content has floor(fillLength / 2) characters and the run
\* right of it has fillLength - floor(fillLength / 2), the odd remainder
\* next to the content; the filler is the separator for [fill] and the
\* space for [spaceFill].
C24_FillerSplitInHalves ==
    (/\ ret.op = "adjustLineLength"
     /\ HasDirective(arg.line)
     /\ PartsOf(arg).fillLength >= 0)
    => HalvedResult(arg.line, ret.result, arg.separator, PartsOf(arg))

C24_Witness ==
    /\ ret.op = "adjustLineLength"
    /\ arg.line = "/*[fill]Hello World*/"
    /\ arg.baseLength = DefaultBaseLength
    /\ arg.separator = "="
    /\ PartsOf(arg).fillLength = 21
    /\ ret.result = "/* ========== Hello World =========== */"

(***************************************************************************)
(* Lines are rendered independently                                        *)
(***************************************************************************)

\* the placeholder indices that occur on the line
IndicesOf(line) ==
    { OccurrenceRecords(line, 1)[k].p1 :
          k \in 1..Len(OccurrenceRecords(line, 1)) }

\* no placeholder index occurs on more than one line
NoSharedIndex(lines) ==
    \A i, j \in 1..Len(lines) :
        i # j => IndicesOf(lines[i]) \cap IndicesOf(lines[j]) = {}

\* the outputs of generating each line on its own, in order
EachLineAlone(lines, language, patternKey, baseLength, separator) ==
    [i \in 1..Len(lines) |->
        generateCommentPattern(EmptyMap, language, patternKey, lines[i],
                               baseLength, separator).value]

\* C25: for a registered language and a template of several lines in which
\* no placeholder index occurs on more than one line, the output of
\* generateCommentPattern is the newline-join of the outputs of generating
\* each template line on its own, in order.
C25_LinesRenderedIndependently ==
    (/\ ret.op = "generate"
     /\ arg.language \in DOMAIN commentStyles
     /\ Len(split(arg.pattern)) >= 2
     /\ NoSharedIndex(split(arg.pattern)))
    => ret.value = join(EachLineAlone(split(arg.pattern), arg.language,
                                      arg.patternKey, loaded.baseLength,
                                      loaded.separator))

C25_Witness ==
    /\ ret.op = "generate"
    /\ arg.language = "javascript"
    /\ arg.pattern \in TitledTemplates
    /\ NoSharedIndex(split(arg.pattern))
    /\ ret.value = "/* ${1:Title}\n=============== ${2:Note} ================ */"

(***************************************************************************)
(* Two calls of generateCommentPattern followed step by step               *)
(***************************************************************************)

\* a template whose first line refers to a placeholder that the second
\* line defines
BareFirstTemplate == "[fill] ${1} \n[s]${1:Title}"

InterleavedLanguages == {"javascript", "yaml", "cobol"}

InterleavedTemplates == {HelloTemplate, FooterTemplate, BareFirstTemplate}

\* both calls are for the same language, pattern key and template; the
\* extension was loaded under either configuration
InitInterleaved ==
    /\ patternCache = EmptyMap
    /\ config \in Configs
    /\ loaded = getConfiguration(config)
    /\ arg \in [op : {"generate"}, language : InterleavedLanguages,
                patternKey : {"sharedPattern"}, pattern : InterleavedTemplates]
    /\ ret = [op |-> "generate", errors |-> 0, infos |-> 0]
    /\ calls = 0
    /\ NoEditors
    /\ NoCallers

\* call c is made
Enter(c) ==
    /\ pc[c] = "idle"
    /\ pc' = [pc EXCEPT ![c] = "check"]
    /\ calls' = calls + 1
    /\ UNCHANGED <<patternCache, config, loaded, arg, ret, editors, computed>>

\* lines 386-389: the cache check of call c, and the return on a hit
CheckCache(c) ==
    /\ pc[c] = "check"
    /\ IF CacheKey(arg.language, arg.patternKey) \in DOMAIN patternCache
       THEN /\ computed' = [computed EXCEPT
                    ![c] = patternCache[CacheKey(arg.language, arg.patternKey)]]
            /\ pc' = [pc EXCEPT ![c] = "done"]
       ELSE /\ pc' = [pc EXCEPT ![c] = "compute"]
            /\ UNCHANGED computed
    /\ UNCHANGED <<patternCache, config, loaded, arg, ret, calls, editors>>

\* what Compute does with the outcome r of the rendering: a failure is
\* logged and the pattern returned, a result goes on to the store
Computed(c, r) ==
    IF r.infos = 0
    THEN /\ computed' = [computed EXCEPT ![c] = r.value]
         /\ pc' = [pc EXCEPT ![c] = "done"]
         /\ ret' = [ret EXCEPT !.errors = @ + r.errors]
    ELSE /\ computed' = [computed EXCEPT ![c] = r.value]
         /\ pc' = [pc EXCEPT ![c] = "store"]
         /\ ret' = [ret EXCEPT !.errors = @ + r.errors]

\* lines 391-442 and the catch block: call c renders the lines into its
\* local result with a placeholder map of its own
Compute(c) ==
    /\ pc[c] = "compute"
    /\ Computed(c, GenerateMiss(patternCache, arg.language, arg.patternKey,
                                arg.pattern, loaded.baseLength, loaded.separator))
    /\ UNCHANGED <<patternCache, config, loaded, arg, calls, editors>>

\* lines 444-446: call c stores its result, logs the info message and returns
Store(c) ==
    /\ pc[c] = "store"
    /\ patternCache' = MapSet(patternCache,
                              CacheKey(arg.language, arg.patternKey), computed[c])
    /\ pc' = [pc EXCEPT ![c] = "done"]
    /\ ret' = [ret EXCEPT !.infos = @ + 1]
    /\ UNCHANGED <<config, loaded, arg, calls, editors, computed>>

NextInterleaved ==
    \E c \in Callers : Enter(c) \/ CheckCache(c) \/ Compute(c) \/ Store(c)

SpecInterleaved == InitInterleaved /\ [][NextInterleaved]_vars

\* both calls have returned
BothReturned == \A c \in Callers : pc[c] = "done"

StoredForOwnPair == arg.op = "generate" /\ ret.op = "generate" /\ ret.infos = 1

\* the call of the step is served the entry that the call before it stored
ServedEntryOfPreviousCall ==
    /\ ret'.infos = 0
    /\ ret'.adjustCalls = 0
    /\ CacheKey(arg'.language, arg'.patternKey)
         = CacheKey(arg.language, arg.patternKey)
    /\ ret'.value = ret.value

\* C27: distinct (languageId, patternKey) pairs never share a pattern-cache
\* entry: a call for one pair is never returned the string that the call
\* before it computed and stored for a different pair.
C27_PairsNeverShareEntry ==
    [][(/\ IsGenerateStep
        /\ StoredForOwnPair
        /\ <<arg'.language, arg'.patternKey>> # <<arg.language, arg.patternKey>>)
        => ~ServedEntryOfPreviousCall]_vars

(***************************************************************************)
(* A line on which adjustLineLength fails                                  *)
(***************************************************************************)

\* the output lines that still carry their directive: the lines on which
\* adjustLineLength failed
FailedLines(outLines) == { i \in 1..Len(outLines) : HasDirective(outLines[i]) }

\* the template with the directive taken off the lines in failed, so that
\* adjustLineLength succeeds on them
Mended(lines, failed) ==
    join([i \in 1..Len(lines) |->
            IF i \in failed
            THEN replace(replace(lines[i], "[fill]", ""), "[spaceFill]", "")
            ELSE lines[i]])

\* the failed lines are the lines handed to adjustLineLength, the others
\* are as in mended, the rendering of the template with the failing lines
\* made to succeed
OnlyFailedLinesDiffer(lines, outLines, mended, commentStyle) ==
    /\ Len(outLines) = Len(lines)
    /\ Len(mended) = Len(lines)
    /\ \A i \in 1..Len(lines) :
           IF i \in FailedLines(outLines)
           THEN outLines[i] = DelimitedLine(lines[i], commentStyle)
           ELSE outLines[i] = mended[i]

\* C28: if adjustLineLength fails on a line of a template for a registered
\* language, generateCommentPattern still completes normally: the failed
\* line appears in the output as the delimiter-substituted line handed to
\* the adjuster, every other line is rendered as if that line had
\* succeeded, the only errors logged are the adjuster's, one per failed
\* line, and the assembled result is stored in the pattern cache.
C28_FailedLineLeftInPlace ==
    (/\ ret.op = "generate"
     /\ arg.language \in DOMAIN commentStyles
     /\ ret.errors >= 1)
    => /\ ret.infos = 1
       /\ ret.errors = Cardinality(FailedLines(split(ret.value)))
       /\ CacheKey(arg.language, arg.patternKey) \in DOMAIN patternCache
       /\ patternCache[CacheKey(arg.language, arg.patternKey)] = ret.value
       /\ OnlyFailedLinesDiffer(
              split(arg.pattern), split(ret.value),
              split(GenerateMiss(EmptyMap, arg.language, arg.patternKey,
                                 Mended(split(arg.pattern),
                                        FailedLines(split(ret.value))),
                                 loaded.baseLength, loaded.separator).value),
              commentStyles[arg.language])

C28_Witness ==
    /\ ret.op = "generate"
    /\ arg.language = "javascript"
    /\ arg.pattern \in OverlongTemplates
    /\ ret.errors = 1
    /\ FailedLines(split(ret.value)) = {2}
    /\ LastLine(split(ret.value)) = "=========== End of ${1} ============ */"

(***************************************************************************)
(* The line structure of the template                                      *)
(***************************************************************************)

\* as many output lines as template lines, and an empty output line for
\* every template line that is empty or holds white space only
LineStructureKept(lines, outLines) ==
    /\ Len(outLines) = Len(lines)
    /\ \A i \in 1..Len(lines) : trim(lines[i]) = "" => outLines[i] = ""

\* C29: generateCommentPattern preserves the line structure: the output
\* has exactly as many newline-separated lines as the template, and a
\* template line that is empty or whitespace-only yields an empty output
\* line, with no delimiter added.
C29_LineStructurePreserved ==
    ret.op = "generate"
    => LineStructureKept(split(arg.pattern), split(ret.value))

C29_Witness ==
    /\ ret.op = "generate"
    /\ arg.language = "yaml"
    /\ arg.pattern \in BlankLineTemplates
    /\ ret.value = "#\n\n\n"

(***************************************************************************)
(* Registration once per editor and language                               *)
(***************************************************************************)

\* the step is a call of registerProviderForActiveEditor
IsRegisterStep ==
    arg'.op = "registerProviderForActiveEditor" /\ calls' = calls + 1

\* since the registration map was last cleared no editor got more than one
\* provider for the same language
AtMostOncePerEditorAndLanguage ==
    \A p \in DOMAIN registrations : registrations[p] <= 1

\* no provider is registered for a language outside the registry
OnlyRegistryLanguages ==
    \A i \in 1..Len(providers) : providers[i] \in DOMAIN commentStyles

\* the event is for an editor whose recorded language is the language of
\* its document
LanguageUnchanged ==
    /\ arg'.editor \in DOMAIN registeredEditors
    /\ registeredEditors[arg'.editor] = arg'.language

\* C30: provider registration is idempotent per editor: over any sequence
\* of events a completion provider is registered and the completion items
\* regenerated at most once per (editor, languageId) between clears of the
\* registration map; an event for an editor whose recorded language is
\* unchanged registers nothing, and an editor whose language is not in the
\* registry never gets a provider.
C30_RegistrationOncePerEditorAndLanguage ==
    [][IsRegisterStep
       => /\ AtMostOncePerEditorAndLanguage'
          /\ OnlyRegistryLanguages'
          /\ LanguageUnchanged
             => /\ providers' = providers
                /\ completionItems' = completionItems
                /\ patternCache' = patternCache]_vars

====
